---- MODULE Spec2Model ----
(***************************************************************************)
(* MotiveSyz JSON core: value model and builder (ms_json_builder.c), the   *)
(* recursive-descent parser (ms_json_parser.c), the public facade with the *)
(* serializer (ms_json_api.c) and the allocator interface they call        *)
(* (ms_memory.c).                                                          *)
(*                                                                         *)
(* Bytes are their ASCII codes.  A C string is the sequence of its bytes   *)
(* without the terminating NUL; index i of the C buffer is element i + 1   *)
(* of the sequence and index `length` reads the NUL (0).                   *)
(*                                                                         *)
(* The library's functions are operators that take the state they read and *)
(* return the state they leave; the heap (the set of live blocks) is       *)
(* threaded through them, inside the parse context for the parser.         *)
(***************************************************************************)
EXTENDS Integers, Sequences, FiniteSets, TLC

(***************************************************************************)
(* Bounds of the model.                                                    *)
(***************************************************************************)
\* tokens in a text written by the host
MaxTokens == 5
\* builder calls in a run of the host
MaxOps == 5
\* values the host owns at a time
MaxRoots == 2

(***************************************************************************)
(* Character literals used by the sources.                                 *)
(***************************************************************************)
Ch == [bs |-> 8, tab |-> 9, lf |-> 10, vt |-> 11, ff |-> 12, cr |-> 13,
       space |-> 32, quote |-> 34, star |-> 42, plus |-> 43, comma |-> 44,
       minus |-> 45, dot |-> 46, slash |-> 47, zero |-> 48, nine |-> 57,
       colon |-> 58, E |-> 69, lbracket |-> 91, bslash |-> 92,
       rbracket |-> 93, a |-> 97, b |-> 98, e |-> 101, f |-> 102,
       l |-> 108, n |-> 110, r |-> 114, s |-> 115, t |-> 116, u |-> 117,
       x |-> 120, lbrace |-> 123, rbrace |-> 125]

\* <ctype.h> in the "C" locale
isspace(c) == c \in {Ch.space, Ch.tab, Ch.lf, Ch.vt, Ch.ff, Ch.cr}

isdigit(c) == c >= Ch.zero /\ c <= Ch.nine

(***************************************************************************)
(* Result codes and type tags.                                             *)
(***************************************************************************)
MS_JSON_SUCCESS == "MS_JSON_SUCCESS"
MS_JSON_ERROR_INVALID_ARGUMENT == "MS_JSON_ERROR_INVALID_ARGUMENT"
MS_JSON_ERROR_SYNTAX == "MS_JSON_ERROR_SYNTAX"
MS_JSON_ERROR_MEMORY == "MS_JSON_ERROR_MEMORY"
MS_JSON_ERROR_EOF == "MS_JSON_ERROR_EOF"
MS_JSON_ERROR_DEPTH == "MS_JSON_ERROR_DEPTH"

\* Not a code of the library: the call never returns (a loop whose body
\* leaves the whole state unchanged runs forever).
DIVERGES == "DIVERGES"

MS_JSON_NULL == "MS_JSON_NULL"
MS_JSON_BOOL == "MS_JSON_BOOL"
MS_JSON_NUMBER == "MS_JSON_NUMBER"
MS_JSON_STRING == "MS_JSON_STRING"
MS_JSON_ARRAY == "MS_JSON_ARRAY"
MS_JSON_OBJECT == "MS_JSON_OBJECT"

MS_MEMORY_SUCCESS == "MS_MEMORY_SUCCESS"
MS_MEMORY_ERROR_INVALID_ARGUMENT == "MS_MEMORY_ERROR_INVALID_ARGUMENT"
MS_MEMORY_ERROR_OUT_OF_MEMORY == "MS_MEMORY_ERROR_OUT_OF_MEMORY"
MS_MEMORY_ERROR_OVERFLOW == "MS_MEMORY_ERROR_OVERFLOW"
MS_MEMORY_ERROR_CORRUPTED == "MS_MEMORY_ERROR_CORRUPTED"

(***************************************************************************)
(* The heap.  A block is named by the ordinal of the allocation request    *)
(* that returned it; 0 is the NULL pointer.  `fail` is the set of request  *)
(* ordinals that malloc/realloc refuse; `bad` records a release of a block *)
(* that is not live (double free, free of a dangling pointer).             *)
(***************************************************************************)
NULL == 0

\* The heap of a process: the blocks allocated, the number of the next
\* request, the requests the system refuses, whether free was misused, the
\* memory_header_t in front of each block the allocator handed out, and the
\* build (guards: MS_MEMORY_DEBUG is defined), and the blocks freed so far
\* in the order of the calls of free.
EmptyHeap(fail) ==
    [live |-> {}, next |-> 1, fail |-> fail, bad |-> FALSE, headers |-> {},
     guards |-> FALSE, freed |-> <<>>]

\* the same in a build with MS_MEMORY_DEBUG
DebugHeap(fail) == [EmptyHeap(fail) EXCEPT !.guards = TRUE]

\* malloc(3)
malloc(h) ==
    IF h.next \in h.fail
    THEN [ptr |-> NULL, h |-> [h EXCEPT !.next = @ + 1]]
    ELSE [ptr |-> h.next,
          h |-> [h EXCEPT !.next = @ + 1, !.live = @ \cup {h.next}]]

\* free(3)
free(h, ptr) ==
    IF ptr = NULL THEN h
    ELSE IF ptr \in h.live
    THEN [h EXCEPT !.live = @ \ {ptr},
                   !.headers = {x \in @ : x.ptr # ptr},
                   !.freed = Append(@, ptr)]
    ELSE [h EXCEPT !.bad = TRUE]

\* The allocator handles: the process-wide default instance, or NULL.
DefaultAllocator == "g_default_allocator"
NullAllocator == "NULL"

ms_allocator_default == DefaultAllocator

is_valid_allocator(allocator) == allocator # NullAllocator

\* header->block_size = size; header->allocator_tag = (uintptr_t)allocator
write_memory_header(h, ptr, size, allocator) ==
    [h EXCEPT !.headers = {x \in @ : x.ptr # ptr}
                          \cup {[ptr |-> ptr, block_size |-> size,
                                 allocator_tag |-> allocator]}]

\* 1 unless the guards are compiled in and the tag is another allocator's
validate_memory_header(h, ptr, allocator) ==
    IF h.guards
    THEN \E x \in h.headers : x.ptr = ptr /\ x.allocator_tag = allocator
    ELSE TRUE

\* the result of ms_allocator_allocate once malloc returned m
allocate_result(m, size, allocator) ==
    IF m.ptr = NULL
    THEN [res |-> MS_MEMORY_ERROR_OUT_OF_MEMORY, ptr |-> NULL, h |-> m.h]
    ELSE [res |-> MS_MEMORY_SUCCESS, ptr |-> m.ptr,
          h |-> write_memory_header(m.h, m.ptr, size, allocator)]

\* the greatest size_t, for a size_t of 16 bits
SIZE_MAX == 65535

\* sizeof(memory_header_t): a size_t and a uintptr_t
MEMORY_HEADER_SIZE == 4

\* user_size + MEMORY_HEADER_SIZE, 0 when the sum is no size_t
calculate_total_size_safe(user_size) ==
    IF user_size > SIZE_MAX - MEMORY_HEADER_SIZE THEN 0
    ELSE user_size + MEMORY_HEADER_SIZE

ms_allocator_allocate(h, allocator, size) ==
    IF ~is_valid_allocator(allocator) \/ size = 0
    THEN [res |-> MS_MEMORY_ERROR_INVALID_ARGUMENT, ptr |-> NULL, h |-> h]
    ELSE IF calculate_total_size_safe(size) = 0
    THEN [res |-> MS_MEMORY_ERROR_OVERFLOW, ptr |-> NULL, h |-> h]
    ELSE allocate_result(malloc(h), size, allocator)

\* ms_allocator_allocate_zeroed after
\* a = ms_allocator_allocate(allocator, total_bytes, &ptr): the memset, and
\* *result = ptr.  bytes is the size of the block and zeroed the number of
\* its bytes set to 0.
allocate_zeroed_set(a, total_bytes) ==
    [res |-> a.res, ptr |-> a.ptr, h |-> a.h,
     bytes |-> IF a.ptr # NULL THEN total_bytes ELSE 0,
     zeroed |-> IF a.res = MS_MEMORY_SUCCESS /\ a.ptr # NULL /\ total_bytes > 0
                THEN total_bytes ELSE 0]

\* ms_allocator_allocate_zeroed with total_bytes computed
allocate_zeroed_total(h, allocator, total_bytes) ==
    allocate_zeroed_set(ms_allocator_allocate(h, allocator, total_bytes),
                        total_bytes)

\* [res, ptr, h, bytes, zeroed]; result is a non-NULL pointer
ms_allocator_allocate_zeroed(h, allocator, count, size) ==
    IF ~is_valid_allocator(allocator)
    THEN [res |-> MS_MEMORY_ERROR_INVALID_ARGUMENT, ptr |-> NULL, h |-> h,
          bytes |-> 0, zeroed |-> 0]
    ELSE IF count > 0 /\ (size = 0 \/ count > SIZE_MAX \div size)
    THEN [res |-> MS_MEMORY_ERROR_OVERFLOW, ptr |-> NULL, h |-> h,
          bytes |-> 0, zeroed |-> 0]
    ELSE allocate_zeroed_total(h, allocator,
                               IF count > 0 THEN count * size ELSE 0)

ms_allocator_deallocate(h, allocator, ptr) ==
    IF ptr = NULL THEN [res |-> MS_MEMORY_SUCCESS, ptr |-> NULL, h |-> h]
    ELSE IF ~is_valid_allocator(allocator)
    THEN [res |-> MS_MEMORY_ERROR_INVALID_ARGUMENT, ptr |-> NULL, h |-> h]
    ELSE IF ~validate_memory_header(h, ptr, allocator)
    THEN [res |-> MS_MEMORY_ERROR_CORRUPTED, ptr |-> NULL, h |-> h]
    ELSE [res |-> MS_MEMORY_SUCCESS, ptr |-> NULL, h |-> free(h, ptr)]

\* realloc(3): the block keeps its name, moved or not; a refused request
\* leaves the old block as it was
realloc(h, ptr) ==
    IF h.next \in h.fail
    THEN [ptr |-> NULL, h |-> [h EXCEPT !.next = @ + 1]]
    ELSE [ptr |-> ptr, h |-> [h EXCEPT !.next = @ + 1]]

\* ms_allocator_reallocate once realloc returned m; ptr is *result
reallocate_result(m, ptr, new_size, allocator) ==
    IF m.ptr = NULL
    THEN [res |-> MS_MEMORY_ERROR_OUT_OF_MEMORY, ptr |-> ptr, h |-> m.h]
    ELSE [res |-> MS_MEMORY_SUCCESS, ptr |-> m.ptr,
          h |-> write_memory_header(m.h, m.ptr, new_size, allocator)]

\* [res, ptr, h]: ptr is what the call leaves in *result
ms_allocator_reallocate(h, allocator, ptr, new_size) ==
    IF ~is_valid_allocator(allocator)
    THEN [res |-> MS_MEMORY_ERROR_INVALID_ARGUMENT, ptr |-> NULL, h |-> h]
    ELSE IF ptr = NULL THEN ms_allocator_allocate(h, allocator, new_size)
    ELSE IF new_size = 0 THEN ms_allocator_deallocate(h, allocator, ptr)
    ELSE IF ~validate_memory_header(h, ptr, allocator)
    THEN [res |-> MS_MEMORY_ERROR_CORRUPTED, ptr |-> NULL, h |-> h]
    ELSE IF calculate_total_size_safe(new_size) = 0
    THEN [res |-> MS_MEMORY_ERROR_OVERFLOW, ptr |-> NULL, h |-> h]
    ELSE reallocate_result(realloc(h, ptr), ptr, new_size, allocator)

(***************************************************************************)
(* Values.  struct ms_json_value with its union laid out as one record:    *)
(*   type, allocator, id     the tag, the owning allocator, the node block *)
(*   boolean                 data.boolean                                  *)
(*   neg, mag                data.number: sign bit and magnitude           *)
(*   string, sid             data.string: bytes and the buffer's block     *)
(*   items, keys, tab,       data.array / data.object: the first `count`   *)
(*   capacity, tallocator    slots (items[i] = element or entry value,     *)
(*                           keys[i] = entry key, hash and key block), the *)
(*                           table's block, capacity and allocator         *)
(* NullValue is the NULL value pointer; Untouched stands for "the callee   *)
(* did not write *result".                                                 *)
(***************************************************************************)
Blank(type) ==
    [type |-> type, allocator |-> NullAllocator, id |-> NULL,
     boolean |-> 0, neg |-> FALSE, mag |-> 0, string |-> <<>>, sid |-> NULL,
     items |-> <<>>, keys |-> <<>>, tab |-> NULL, capacity |-> 0,
     tallocator |-> NullAllocator]

NullValue == Blank("NULLPTR")

Untouched == Blank("UNTOUCHED")

IsValue(v) == v.type \notin {"NULLPTR", "UNTOUCHED"}

(***************************************************************************)
(* 32-bit FNV-1a, computed on two 16-bit limbs <<high, low>>.              *)
(***************************************************************************)
RECURSIVE Xor(_, _)
Xor(p, q) ==
    IF p = 0 THEN q
    ELSE IF q = 0 THEN p
    ELSE 2 * Xor(p \div 2, q \div 2) + (((p % 2) + (q % 2)) % 2)

\* 2166136261u = 0x811C9DC5
FnvOffsetBasis == <<33052, 40389>>

\* hash *= 16777619u (= 2^24 + 403), modulo 2^32, on the limbs hi, lo
FnvMultiply(hi, lo) ==
    << (hi * 403 + ((lo * 403) \div 65536) + (lo % 256) * 256) % 65536,
       (lo * 403) % 65536 >>

\* hash ^= c (c < 0x80); hash *= 16777619u
FnvStep(hash, c) ==
    FnvMultiply(hash[1], ((hash[2] \div 256) * 256) + Xor(hash[2] % 256, c))

RECURSIVE HashFrom(_, _, _)
HashFrom(hash, str, i) ==
    IF i > Len(str) THEN hash ELSE HashFrom(FnvStep(hash, str[i]), str, i + 1)

ms_json_hash_string(str) == HashFrom(FnvOffsetBasis, str, 1)

\* strcmp(a, b) == 0
StrEq(p, q) == p = q

\* the NULL char pointer: no C string holds the byte 0
NullString == <<0>>

(***************************************************************************)
(* Builder: ms_json_builder.c.  Every function takes the heap and returns  *)
(* [h, val] (creation), [h, res, target] (mutation) or the heap (destroy). *)
(* A function that works on the result of a call it makes is written as    *)
(* the call handed to an operator for the statements that follow it.       *)
(***************************************************************************)
\* allocator ? allocator : ms_allocator_default()
OrDefault(allocator) ==
    IF allocator = NullAllocator THEN ms_allocator_default ELSE allocator

\* ms_json_create_null after the allocation m of the node
create_null_init(m, allocator) ==
    IF m.res # MS_MEMORY_SUCCESS
    THEN [h |-> m.h, val |-> NullValue]
    ELSE [h |-> m.h,
          val |-> [Blank(MS_JSON_NULL) EXCEPT !.id = m.ptr,
                                              !.allocator = allocator]]

ms_json_create_null(h, allocator) ==
    create_null_init(ms_allocator_allocate(h, OrDefault(allocator), 1),
                     OrDefault(allocator))

\* ms_json_create_bool after c = ms_json_create_null(allocator)
create_bool_init(c, value) ==
    IF ~IsValue(c.val) THEN c
    ELSE [h |-> c.h,
          val |-> [c.val EXCEPT !.type = MS_JSON_BOOL,
                                !.boolean = IF value # 0 THEN 1 ELSE 0]]

ms_json_create_bool(h, allocator, value) ==
    create_bool_init(ms_json_create_null(h, allocator), value)

\* ms_json_create_number after c = ms_json_create_null(allocator)
create_number_init(c, value) ==
    IF ~IsValue(c.val) THEN c
    ELSE [h |-> c.h,
          val |-> [c.val EXCEPT !.type = MS_JSON_NUMBER,
                                !.neg = value.neg, !.mag = value.mag]]

\* value is [neg, mag]: the sign bit and the magnitude of the double
ms_json_create_number(h, allocator, value) ==
    create_number_init(ms_json_create_null(h, allocator), value)

\* ms_json_create_string after the allocation m of the copy
create_string_copy(c, m, allocator, value) ==
    IF m.res # MS_MEMORY_SUCCESS
    THEN [h |-> ms_allocator_deallocate(m.h, allocator, c.val.id).h,
          val |-> NullValue]
    ELSE [h |-> m.h,
          val |-> [c.val EXCEPT !.type = MS_JSON_STRING, !.string = value,
                                !.sid = m.ptr]]

\* ms_json_create_string after c = ms_json_create_null(allocator)
create_string_init(c, allocator, value) ==
    IF ~IsValue(c.val) THEN c
    ELSE create_string_copy(
             c, ms_allocator_allocate(c.h, allocator, Len(value) + 1),
             allocator, value)

\* value is a C string (never the NULL string here: see CreateStringNull)
ms_json_create_string(h, allocator, value) ==
    create_string_init(ms_json_create_null(h, allocator), allocator, value)

\* ms_json_create_string(allocator, NULL)
CreateStringNull(h, allocator) == ms_json_create_null(h, allocator)

\* ms_json_create_array / ms_json_create_object after c = create_null
create_container_init(c, type, allocator) ==
    IF ~IsValue(c.val) THEN c
    ELSE [h |-> c.h,
          val |-> [c.val EXCEPT !.type = type, !.tallocator = allocator]]

ms_json_create_array(h, allocator) ==
    create_container_init(ms_json_create_null(h, allocator), MS_JSON_ARRAY,
                          allocator)

ms_json_create_object(h, allocator) ==
    create_container_init(ms_json_create_null(h, allocator), MS_JSON_OBJECT,
                          allocator)

RECURSIVE ms_json_destroy(_, _, _)
RECURSIVE DestroyItems(_, _, _, _)
RECURSIVE DestroyEntries(_, _, _, _)

\* the loop left out: the elements are not destroyed
DestroyItemsSkipped(h, value, allocator, i) == h

\* the loop of MS_JSON_ARRAY in ms_json_free_value_data
DestroyItems(h, value, allocator, i) ==
    IF i > Len(value.items) THEN h
    ELSE DestroyItems(ms_json_destroy(h, value.items[i], allocator),
                      value, allocator, i + 1)

\* the loop of MS_JSON_OBJECT in ms_json_free_value_data
DestroyEntries(h, value, allocator, i) ==
    IF i > Len(value.items) THEN h
    ELSE DestroyEntries(
             ms_json_destroy(
                 ms_allocator_deallocate(h, allocator, value.keys[i].kid).h,
                 value.items[i], allocator),
             value, allocator, i + 1)

ms_json_free_value_data(h, value, allocator) ==
    IF value.type = MS_JSON_STRING
    THEN ms_allocator_deallocate(h, allocator, value.sid).h
    ELSE IF value.type = MS_JSON_ARRAY
    THEN ms_allocator_deallocate(DestroyItems(h, value, allocator, 1),
                                 allocator, value.tab).h
    ELSE IF value.type = MS_JSON_OBJECT
    THEN ms_allocator_deallocate(DestroyEntries(h, value, allocator, 1),
                                 allocator, value.tab).h
    ELSE h

\* allocator ? allocator : (value->allocator ? value->allocator : default)
DestroyAllocator(value, allocator) ==
    IF allocator # NullAllocator THEN allocator
    ELSE IF value.allocator # NullAllocator THEN value.allocator
    ELSE ms_allocator_default

\* ms_json_destroy with alloc the allocator it settled on
destroy_with(h, value, alloc) ==
    ms_allocator_deallocate(ms_json_free_value_data(h, value, alloc),
                            alloc, value.id).h

ms_json_destroy(h, value, allocator) ==
    IF ~IsValue(value) THEN h
    ELSE destroy_with(h, value, DestroyAllocator(value, allocator))

\* a growth by one slot
GrownByOne(capacity) == capacity + 1

\* size_t new_capacity = capacity == 0 ? 4 : capacity * 2
GrownCapacity(capacity) == IF capacity = 0 THEN 4 ELSE capacity * 2

\* ms_json_array_grow after the reallocation m of the table
array_grow_done(m, array) ==
    IF m.res # MS_MEMORY_SUCCESS
    THEN [h |-> m.h, res |-> MS_JSON_ERROR_MEMORY, target |-> array]
    ELSE [h |-> m.h, res |-> MS_JSON_SUCCESS,
          target |-> [array EXCEPT !.tab = m.ptr,
                         !.capacity = GrownCapacity(array.capacity)]]

ms_json_array_grow(h, array) ==
    array_grow_done(
        ms_allocator_reallocate(h, array.tallocator, array.tab,
                                GrownCapacity(array.capacity)),
        array)

\* An append that stores the element whatever the grow returned.  The
\* property of the failed append is checked against it.
array_append_unchecked(g, element) ==
    [h |-> g.h, res |-> g.res,
     target |-> [g.target EXCEPT !.items = Append(@, element)]]

\* ms_json_array_append after the capacity test, g what the grow returned
array_append_store(g, element) ==
    IF g.res # MS_JSON_SUCCESS
    THEN [h |-> g.h, res |-> MS_JSON_ERROR_MEMORY, target |-> g.target]
    ELSE [h |-> g.h, res |-> MS_JSON_SUCCESS,
          target |-> [g.target EXCEPT !.items = Append(@, element)]]

ms_json_array_append(h, array, element) ==
    IF ~IsValue(array) \/ array.type # MS_JSON_ARRAY \/ ~IsValue(element)
    THEN [h |-> h, res |-> MS_JSON_ERROR_INVALID_ARGUMENT, target |-> array]
    ELSE IF Len(array.items) >= array.capacity
    THEN array_append_store(ms_json_array_grow(h, array), element)
    ELSE array_append_store(
             [h |-> h, res |-> MS_JSON_SUCCESS, target |-> array], element)

ms_json_object_grow(h, object) == ms_json_array_grow(h, object)

\* the least index of a set of indexes, 0 when it is empty
FirstIndex(hits) ==
    IF hits = {} THEN 0 ELSE CHOOSE i \in hits : \A j \in hits : i <= j

\* A search that finds nothing: the object_set of an append-only table.
\* The duplicate-key property is checked against it.
FindNoKey(object, key, key_hash) == 0

\* the "Check if key already exists" loop: the first index whose entry has
\* the hash and the bytes of key, 0 when there is none
FindKey(object, key, key_hash) ==
    FirstIndex({i \in 1..Len(object.items) :
                   /\ object.keys[i].hash = key_hash
                   /\ StrEq(object.keys[i].key, key)})

\* A set that destroys the value when the copy of the key fails.  The
\* property of the failed set is checked against it.
object_set_key_drop(m, g, key, key_hash, value) ==
    IF m.res # MS_MEMORY_SUCCESS
    THEN [h |-> ms_json_destroy(m.h, value, NullAllocator),
          res |-> MS_JSON_ERROR_MEMORY, target |-> g.target]
    ELSE [h |-> m.h, res |-> MS_JSON_SUCCESS,
          target |-> [g.target EXCEPT
                         !.items = Append(@, value),
                         !.keys = Append(@, [key |-> key, kid |-> m.ptr,
                                             hash |-> key_hash])]]

\* ms_json_object_set after the allocation m of the key's copy
object_set_key(m, g, key, key_hash, value) ==
    IF m.res # MS_MEMORY_SUCCESS
    THEN [h |-> m.h, res |-> MS_JSON_ERROR_MEMORY, target |-> g.target]
    ELSE [h |-> m.h, res |-> MS_JSON_SUCCESS,
          target |-> [g.target EXCEPT
                         !.items = Append(@, value),
                         !.keys = Append(@, [key |-> key, kid |-> m.ptr,
                                             hash |-> key_hash])]]

\* ms_json_object_set after the capacity test, g what the grow returned
object_set_new(g, allocator, key, key_hash, value) ==
    IF g.res # MS_JSON_SUCCESS
    THEN [h |-> g.h, res |-> MS_JSON_ERROR_MEMORY, target |-> g.target]
    ELSE object_set_key(ms_allocator_allocate(g.h, allocator, Len(key) + 1),
                        g, key, key_hash, value)

\* A set that stores the value over the one it finds and lets the old one
\* be.  The replace-in-place property is checked against it.
object_set_over(h, object, key, key_hash, value, i) ==
    IF i # 0
    THEN [h |-> h, res |-> MS_JSON_SUCCESS,
          target |-> [object EXCEPT !.items[i] = value]]
    ELSE IF Len(object.items) >= object.capacity
    THEN object_set_new(ms_json_object_grow(h, object), object.tallocator,
                        key, key_hash, value)
    ELSE object_set_new([h |-> h, res |-> MS_JSON_SUCCESS, target |-> object],
                        object.tallocator, key, key_hash, value)

\* ms_json_object_set after the search, i what it found
object_set_at(h, object, key, key_hash, value, i) ==
    IF i # 0
    THEN [h |-> ms_json_destroy(h, object.items[i], object.tallocator),
          res |-> MS_JSON_SUCCESS,
          target |-> [object EXCEPT !.items[i] = value]]
    ELSE IF Len(object.items) >= object.capacity
    THEN object_set_new(ms_json_object_grow(h, object), object.tallocator,
                        key, key_hash, value)
    ELSE object_set_new([h |-> h, res |-> MS_JSON_SUCCESS, target |-> object],
                        object.tallocator, key, key_hash, value)

\* ms_json_object_set with key_hash = ms_json_hash_string(key)
object_set_hashed(h, object, key, key_hash, value) ==
    object_set_at(h, object, key, key_hash, value,
                  FindKey(object, key, key_hash))

\* key is a C string, value a value pointer
ms_json_object_set(h, object, key, value) ==
    IF \/ ~IsValue(object) \/ object.type # MS_JSON_OBJECT
       \/ key = NullString \/ ~IsValue(value)
    THEN [h |-> h, res |-> MS_JSON_ERROR_INVALID_ARGUMENT, target |-> object]
    ELSE object_set_hashed(h, object, key, ms_json_hash_string(key), value)

(***************************************************************************)
(* Parser: ms_json_parser.c.  The parse context carries the heap and       *)
(* observation fields that the code does not have: `outside` tells that a  *)
(* byte of the input was read at an index that is not below the length,    *)
(* `retreated` that the position was set to a smaller one, `overran` that  *)
(* it was set beyond the length, `literals` lists the positions of the     *)
(* opening quotes parse_string found; `comments` lists the                 *)
(* [from, to) spans of the comments skipped so far, `unclosed` tells that  *)
(* ms_json_skip_block_comment ran out of input, `slash` that a skip of     *)
(* whitespace stopped at a '/' with comments not allowed, and `diverged`   *)
(* that the call entered a loop that never ends.                           *)
(* A parse function returns [code, ctx, val]: val is what it wrote to      *)
(* *result, Untouched when it did not write it.                            *)
(***************************************************************************)
MAX_NUMBER_LENGTH == 64

\* #define MAX_STRING_LENGTH (1024 * 1024), scaled down: the parser only
\* compares lengths with it and with twice it
MAX_STRING_LENGTH == 32

NULL_LENGTH == 4
TRUE_LENGTH == 4
FALSE_LENGTH == 5
JSON_MAX_DEPTH_DEFAULT == 256

\* ctx->input[i]
At(ctx, i) == IF i < ctx.length THEN ctx.input[i + 1] ELSE 0

\* the context after a read of ctx->input[i]
Seen(ctx, i) == [ctx EXCEPT !.outside = @ \/ i >= ctx.length]

\* the context after ctx->position = p
Moved(ctx, p) ==
    [ctx EXCEPT !.position = p, !.retreated = @ \/ p < ctx.position,
                !.overran = @ \/ p > ctx.length]

\* the context after a test of ctx->input[ctx->position]
Looked(ctx) == Seen(ctx, ctx.position)

\* the context after that test and ctx->position++
Stepped(ctx) == Moved(Looked(ctx), ctx.position + 1)

\* the bytes strncmp compares: up to the first that differs
Differs(ctx, literal) ==
    {k \in 1..Len(literal) : At(ctx, ctx.position + k - 1) # literal[k]}

\* the context after strncmp(&ctx->input[ctx->position], literal, n)
Compared(ctx, literal) ==
    Seen(ctx,
         IF Differs(ctx, literal) = {} THEN ctx.position + Len(literal) - 1
         ELSE ctx.position - 1
                + CHOOSE k \in Differs(ctx, literal) :
                      \A j \in Differs(ctx, literal) : k <= j)

\* strncmp(&ctx->input[ctx->position], literal, n) == 0, with n = Len(literal)
\* bytes of input left
Matches(ctx, literal) ==
    \A k \in 1..Len(literal) : At(ctx, ctx.position + k - 1) = literal[k]

Ret(ret, ctx) == [ret |-> ret, ctx |-> ctx]

Out(code, ctx, val) == [code |-> code, ctx |-> ctx, val |-> val]

RECURSIVE LineCommentEnd(_, _)
\* while (position < length && input[position] != '\n') position++;
\* if (position < length) position++
LineCommentEnd(ctx, p) ==
    IF p < ctx.length /\ At(ctx, p) # Ch.lf THEN LineCommentEnd(ctx, p + 1)
    ELSE IF p < ctx.length THEN p + 1
    ELSE p

\* ms_json_skip_line_comment leaving the position at q
skip_line_comment_to(ctx, q) ==
    Ret(1, [Moved(Seen(ctx, q - 1), q) EXCEPT
                !.comments = Append(@, <<ctx.position, q>>)])

\* A skip of the two slashes only, the text of the comment left to be
\* parsed.  The comment property is checked against it.
skip_line_comment_marker(ctx) ==
    Ret(1, [Moved(ctx, ctx.position + 2) EXCEPT
                !.comments = Append(@, <<ctx.position, ctx.position + 2>>)])

ms_json_skip_line_comment(ctx) ==
    skip_line_comment_to(ctx, LineCommentEnd(ctx, ctx.position + 2))

RECURSIVE BlockCommentScan(_, _)
\* the while loop of ms_json_skip_block_comment: [ret, position]
BlockCommentScan(ctx, p) ==
    IF p + 1 < ctx.length
    THEN IF At(ctx, p) = Ch.star /\ At(ctx, p + 1) = Ch.slash
         THEN <<1, p + 2>>
         ELSE BlockCommentScan(ctx, p + 1)
    ELSE <<0, p>>

\* ms_json_skip_block_comment with r what its loop came to
skip_block_comment_to(ctx, r) ==
    IF r[1] = 1
    THEN Ret(1, [Moved(Seen(ctx, r[2] - 1), r[2]) EXCEPT
                     !.comments = Append(@, <<ctx.position, r[2]>>)])
    ELSE Ret(0, [Moved(Seen(ctx, r[2] - 1), r[2]) EXCEPT !.unclosed = TRUE])

ms_json_skip_block_comment(ctx) ==
    skip_block_comment_to(ctx, BlockCommentScan(ctx, ctx.position + 2))

ms_json_skip_comments(ctx) ==
    IF ctx.position + 1 >= ctx.length THEN Ret(0, ctx)
    ELSE IF At(ctx, ctx.position + 1) = Ch.slash
    THEN ms_json_skip_line_comment(Seen(ctx, ctx.position + 1))
    ELSE IF At(ctx, ctx.position + 1) = Ch.star
    THEN ms_json_skip_block_comment(Seen(ctx, ctx.position + 1))
    ELSE Ret(1, Seen(ctx, ctx.position + 1))

RECURSIVE ms_json_skip_whitespace_and_comments(_)

\* The loop after k = ms_json_skip_comments(ctx).  When the body returns to
\* the test with the context unchanged, every later iteration repeats it:
\* the loop does not end.
skip_whitespace_and_comments_after(ctx, k) ==
    IF k.ret = 0 THEN Ret(0, k.ctx)
    ELSE IF k.ctx = ctx THEN Ret(1, [ctx EXCEPT !.diverged = TRUE])
    ELSE ms_json_skip_whitespace_and_comments(k.ctx)

\* the index of the first byte from p on that is not whitespace, the length
\* when there is none: where the iterations that do position++ and continue
\* come to
WhitespaceEnd(ctx, p) ==
    CHOOSE q \in p..ctx.length :
        /\ q = ctx.length \/ ~isspace(At(ctx, q))
        /\ \A r \in p..(q - 1) : isspace(At(ctx, r))

\* the loop after it read and skipped the whitespace up to q
skip_whitespace_run(ctx, q) ==
    ms_json_skip_whitespace_and_comments(Moved(Seen(ctx, q - 1), q))

\* One call of the operator is one test of the while condition that is not
\* met, finds a byte that is not whitespace, or starts a run of whitespace.
ms_json_skip_whitespace_and_comments(ctx) ==
    IF ctx.position < ctx.length
    THEN IF isspace(At(ctx, ctx.position))
         THEN skip_whitespace_run(ctx, WhitespaceEnd(ctx, ctx.position))
         ELSE IF \/ ~ctx.options.allow_comments
                 \/ At(ctx, ctx.position) # Ch.slash
         THEN Ret(1, [Looked(ctx) EXCEPT
                         !.slash = @ \/ At(ctx, ctx.position) = Ch.slash])
         ELSE skip_whitespace_and_comments_after(
                  Looked(ctx),
                  ms_json_skip_comments(Looked(ctx)))
    ELSE Ret(1, ctx)

\* *result = ms_json_create_...; return *result ? SUCCESS : MEMORY
Created(ctx, c) ==
    Out(IF IsValue(c.val) THEN MS_JSON_SUCCESS ELSE MS_JSON_ERROR_MEMORY,
        [ctx EXCEPT !.heap = c.h], c.val)

parse_null(ctx) ==
    IF ctx.position + NULL_LENGTH > ctx.length
    THEN Out(MS_JSON_ERROR_EOF, ctx, Untouched)
    ELSE IF ~Matches(ctx, <<Ch.n, Ch.u, Ch.l, Ch.l>>)
    THEN Out(MS_JSON_ERROR_SYNTAX,
             Compared(ctx, <<Ch.n, Ch.u, Ch.l, Ch.l>>), Untouched)
    ELSE Created(Moved(Compared(ctx, <<Ch.n, Ch.u, Ch.l, Ch.l>>),
                       ctx.position + NULL_LENGTH),
                 ms_json_create_null(ctx.heap, ctx.allocator))

parse_boolean(ctx) ==
    IF ctx.position + TRUE_LENGTH > ctx.length
    THEN Out(MS_JSON_ERROR_EOF, ctx, Untouched)
    ELSE IF Matches(ctx, <<Ch.t, Ch.r, Ch.u, Ch.e>>)
    THEN Created(Moved(Compared(ctx, <<Ch.t, Ch.r, Ch.u, Ch.e>>),
                       ctx.position + TRUE_LENGTH),
                 ms_json_create_bool(ctx.heap, ctx.allocator, 1))
    ELSE IF ctx.position + FALSE_LENGTH > ctx.length
    THEN Out(MS_JSON_ERROR_SYNTAX,
             Compared(ctx, <<Ch.t, Ch.r, Ch.u, Ch.e>>), Untouched)
    ELSE IF Matches(ctx, <<Ch.f, Ch.a, Ch.l, Ch.s, Ch.e>>)
    THEN Created(Moved(Compared(Compared(ctx, <<Ch.t, Ch.r, Ch.u, Ch.e>>),
                                <<Ch.f, Ch.a, Ch.l, Ch.s, Ch.e>>),
                       ctx.position + FALSE_LENGTH),
                 ms_json_create_bool(ctx.heap, ctx.allocator, 0))
    ELSE Out(MS_JSON_ERROR_SYNTAX,
             Compared(Compared(ctx, <<Ch.t, Ch.r, Ch.u, Ch.e>>),
                      <<Ch.f, Ch.a, Ch.l, Ch.s, Ch.e>>), Untouched)

IsNumberChar(c) ==
    isdigit(c) \/ c \in {Ch.minus, Ch.plus, Ch.dot, Ch.e, Ch.E}

RECURSIVE NumberScan(_, _, _)
\* the while loop of ms_json_parse_number_string: the position it ends at
NumberScan(ctx, p, digits) ==
    IF p < ctx.length /\ digits < MAX_NUMBER_LENGTH /\ IsNumberChar(At(ctx, p))
    THEN NumberScan(ctx, p + 1, digits + 1)
    ELSE p

\* the greatest index the loop read when it stopped at p: p when it was the
\* byte at p that stopped it
LastScanned(ctx, start, p) ==
    IF p < ctx.length /\ p - start < MAX_NUMBER_LENGTH THEN p
    ELSE IF p > start THEN p - 1
    ELSE start

\* ms_json_parse_number_string with p where its loop stopped
parse_number_string_at(ctx, start, p) ==
    IF \/ p - start = 0
       \/ (p - start = 1 /\ At(ctx, start) \in {Ch.minus, Ch.plus})
    THEN Ret(0, Moved(Seen(ctx, LastScanned(ctx, start, p)), p))
    ELSE Ret(IF p > start THEN 1 ELSE 0,
             Moved(Seen(ctx, LastScanned(ctx, start, p)), p))

ms_json_parse_number_string(ctx) ==
    parse_number_string_at(ctx, ctx.position,
                           NumberScan(ctx, ctx.position, 0))

RECURSIVE DigitRun(_, _)
\* the number of leading decimal digits of str from index i on
DigitRun(str, i) ==
    IF i <= Len(str) /\ isdigit(str[i]) THEN 1 + DigitRun(str, i + 1) ELSE 0

RECURSIVE DecimalValue(_, _, _, _)
DecimalValue(str, i, n, acc) ==
    IF n = 0 THEN acc
    ELSE DecimalValue(str, i + 1, n - 1, acc * 10 + (str[i] - Ch.zero))

\* the length of the sign strtod accepts at the head of str
SignLength(str) ==
    IF Len(str) > 0 /\ str[1] \in {Ch.minus, Ch.plus} THEN 1 ELSE 0

\* strtod on str with a sign of `sign` bytes and n digits after it
strtod_digits(str, sign, n) ==
    IF n = 0 THEN [parse_end |-> 0, neg |-> FALSE, mag |-> 0]
    ELSE [parse_end |-> sign + n,
          neg |-> (sign = 1 /\ str[1] = Ch.minus),
          mag |-> DecimalValue(str, sign + 1, n, 0)]

\* strtod(3) on a slice made of an optional sign and decimal digits; the
\* texts of the model hold no '.', 'e' or 'E' inside a number.  parse_end is
\* the number of bytes converted, 0 when there is no digit after the sign.
strtod(str) ==
    strtod_digits(str, SignLength(str), DigitRun(str, SignLength(str) + 1))

\* ms_json_convert_number_string with d = strtod(number_string).  The
\* DBL_MAX test of lines 264-277 is never met: a slice of fewer than 64
\* decimal digits is below DBL_MAX in magnitude.
convert_number_string_value(ctx, number_length, d) ==
    IF d.parse_end # number_length
    THEN Out(MS_JSON_ERROR_SYNTAX, ctx, Untouched)
    ELSE Created(ctx, ms_json_create_number(ctx.heap, ctx.allocator,
                                            [neg |-> d.neg, mag |-> d.mag]))

ms_json_convert_number_string(ctx, start) ==
    IF start >= ctx.position
    THEN Out(MS_JSON_ERROR_INVALID_ARGUMENT, ctx, Untouched)
    ELSE IF ctx.position - start >= MAX_NUMBER_LENGTH
    THEN Out(MS_JSON_ERROR_SYNTAX, ctx, Untouched)
    ELSE convert_number_string_value(
             ctx, ctx.position - start,
             strtod(SubSeq(ctx.input, start + 1, ctx.position)))

\* parse_number after s = ms_json_parse_number_string(ctx)
parse_number_convert(s, number_start) ==
    IF s.ret = 0 THEN Out(MS_JSON_ERROR_SYNTAX, s.ctx, Untouched)
    ELSE ms_json_convert_number_string(s.ctx, number_start)

parse_number(ctx) ==
    parse_number_convert(ms_json_parse_number_string(ctx), ctx.position)

\* the switch left out: every escape is the byte after the backslash
decode_escape_letter(escape_char) == escape_char

ms_json_decode_escape(escape_char) ==
    IF escape_char = Ch.quote THEN Ch.quote
    ELSE IF escape_char = Ch.bslash THEN Ch.bslash
    ELSE IF escape_char = Ch.slash THEN Ch.slash
    ELSE IF escape_char = Ch.b THEN Ch.bs
    ELSE IF escape_char = Ch.f THEN Ch.ff
    ELSE IF escape_char = Ch.n THEN Ch.lf
    ELSE IF escape_char = Ch.r THEN Ch.cr
    ELSE IF escape_char = Ch.t THEN Ch.tab
    ELSE escape_char

RECURSIVE CopyLoop(_, _, _, _)
\* the for loop of ms_json_copy_string_content: the bytes written to output
CopyLoop(ctx, i, output, max_len) ==
    IF i < ctx.position /\ Len(output) < max_len
    THEN IF At(ctx, i) = Ch.bslash /\ i + 1 < ctx.position
         THEN CopyLoop(ctx, i + 2,
                       Append(output, ms_json_decode_escape(At(ctx, i + 1))),
                       max_len)
         ELSE CopyLoop(ctx, i + 1, Append(output, At(ctx, i)), max_len)
    ELSE output

\* if (!ctx || !output || start >= ctx->position) return 0
CopyRefused(ctx, start) == start >= ctx.position

\* ms_json_copy_string_content after its loop wrote output
copy_string_content_end(output, max_len) ==
    IF Len(output) > max_len THEN [ret |-> 0, output |-> <<>>]
    ELSE [ret |-> 1, output |-> output]

\* [ret, output]
ms_json_copy_string_content(ctx, start, max_len) ==
    IF CopyRefused(ctx, start) THEN [ret |-> 0, output |-> <<>>]
    ELSE copy_string_content_end(CopyLoop(ctx, start, <<>>, max_len), max_len)

RECURSIVE StringScan(_, _, _, _)
\* the while loop of ms_json_parse_string_content:
\* [position, content_length, incomplete] with incomplete = the input ended
\* right after a backslash
StringScan(ctx, p, content_length, max_content_length) ==
    IF /\ p < ctx.length
       /\ At(ctx, p) # Ch.quote
       /\ content_length < max_content_length
    THEN IF At(ctx, p) = Ch.bslash
         THEN IF p + 1 >= ctx.length
              THEN [position |-> p + 1, content_length |-> content_length,
                    incomplete |-> TRUE]
              ELSE StringScan(ctx, p + 2, content_length + 1,
                              max_content_length)
         ELSE StringScan(ctx, p + 1, content_length + 1, max_content_length)
    ELSE [position |-> p, content_length |-> content_length,
          incomplete |-> FALSE]

\* return NULL of ms_json_parse_string_content
NoString(ctx) == [ptr |-> NULL, str |-> <<>>, ctx |-> ctx]

\* ms_json_parse_string_content after malloc returned m; cp is what
\* ms_json_copy_string_content returns for the buffer
parse_string_content_copy(ctx, m, cp) ==
    IF m.ptr = NULL THEN NoString([ctx EXCEPT !.heap = m.h])
    ELSE IF cp.ret = 0
    THEN NoString([ctx EXCEPT !.heap = free(m.h, m.ptr)])
    ELSE [ptr |-> m.ptr, str |-> cp.output,
          ctx |-> [Moved(ctx, ctx.position + 1) EXCEPT !.heap = m.h]]

\* ms_json_parse_string_content after its loop, the position set by it
parse_string_content_closed(ctx, start, sc) ==
    IF sc.incomplete THEN NoString(ctx)
    ELSE IF ctx.position >= ctx.length \/ At(ctx, ctx.position) # Ch.quote
    THEN NoString(ctx)
    ELSE IF sc.content_length >= MAX_STRING_LENGTH THEN NoString(ctx)
    ELSE parse_string_content_copy(
             ctx, malloc(ctx.heap),
             ms_json_copy_string_content(ctx, start, sc.content_length))

\* ms_json_parse_string_content with sc what its loop came to
parse_string_content_scanned(ctx, start, sc) ==
    parse_string_content_closed(
        Moved(Seen(ctx, IF sc.position < ctx.length THEN sc.position
                        ELSE sc.position - 1),
              sc.position),
        start, sc)

\* the least of the bytes left and MAX_STRING_LENGTH
MaxContentLength(ctx) ==
    IF ctx.length - ctx.position < MAX_STRING_LENGTH
    THEN ctx.length - ctx.position ELSE MAX_STRING_LENGTH

\* [ptr, str, ctx]: the malloc'ed buffer (NULL on failure) and its bytes
ms_json_parse_string_content(ctx) ==
    parse_string_content_scanned(
        ctx, ctx.position,
        StringScan(ctx, ctx.position, 0, MaxContentLength(ctx)))

\* parse_string after c = ms_json_create_string(allocator, parsed_string)
parse_string_created(p, c) ==
    Out(IF IsValue(c.val) THEN MS_JSON_SUCCESS ELSE MS_JSON_ERROR_MEMORY,
        [p.ctx EXCEPT !.heap = free(c.h, p.ptr)], c.val)

\* parse_string after p = ms_json_parse_string_content(ctx)
parse_string_create(p, allocator) ==
    IF p.ptr = NULL THEN Out(MS_JSON_ERROR_SYNTAX, p.ctx, Untouched)
    ELSE parse_string_created(
             p, ms_json_create_string(p.ctx.heap, allocator, p.str))

\* the context of parse_string after it found the opening quote
Opened(ctx) == [Looked(ctx) EXCEPT !.literals = Append(@, ctx.position)]

\* the test of the bytes left left out
parse_string_unchecked(ctx) ==
    IF At(ctx, ctx.position) # Ch.quote
    THEN Out(MS_JSON_ERROR_SYNTAX, Looked(ctx), Untouched)
    ELSE parse_string_create(
             ms_json_parse_string_content(Stepped(Opened(ctx))),
             ctx.allocator)

parse_string(ctx) ==
    IF At(ctx, ctx.position) # Ch.quote
    THEN Out(MS_JSON_ERROR_SYNTAX, Looked(ctx), Untouched)
    ELSE IF ctx.length - ctx.position > MAX_STRING_LENGTH * 2
    THEN Out(MS_JSON_ERROR_SYNTAX, Opened(ctx), Untouched)
    ELSE parse_string_create(
             ms_json_parse_string_content(Stepped(Opened(ctx))),
             ctx.allocator)

(***************************************************************************)
(* Accessors used by the parser (ms_json_api.c).                           *)
(***************************************************************************)
\* a getter that returns before it writes *result
Refused ==
    [res |-> MS_JSON_ERROR_INVALID_ARGUMENT, wrote |-> FALSE, num |-> 0,
     str |-> <<>>, ptr |-> Untouched]

\* *result = x; return MS_JSON_SUCCESS, for x a number (int, double or
\* size_t), a string or a value pointer
WroteNum(x) == [Refused EXCEPT !.res = MS_JSON_SUCCESS, !.wrote = TRUE,
                               !.num = x]

WroteStr(x) == [Refused EXCEPT !.res = MS_JSON_SUCCESS, !.wrote = TRUE,
                               !.str = x]

WrotePtr(x) == [Refused EXCEPT !.res = MS_JSON_SUCCESS, !.wrote = TRUE,
                               !.ptr = x]

\* an access check that does not look at the type of the value
validate_access_untyped(value, result_ptr, expected_type) ==
    IsValue(value) /\ result_ptr

\* value && result && type == expected_type; result_ptr tells whether the
\* caller's output pointer is non-null
ms_json_validate_access(value, result_ptr, expected_type) ==
    IsValue(value) /\ result_ptr /\ value.type = expected_type

\* [res, wrote, num, str, ptr]: what was written to *result
ms_json_get_bool(value, result_ptr) ==
    IF ~ms_json_validate_access(value, result_ptr, MS_JSON_BOOL)
    THEN Refused
    ELSE WroteNum(value.boolean)

ms_json_get_number(value, result_ptr) ==
    IF ~ms_json_validate_access(value, result_ptr, MS_JSON_NUMBER)
    THEN Refused
    ELSE WroteNum(IF value.neg THEN 0 - value.mag ELSE value.mag)

ms_json_get_string(value, result_ptr) ==
    IF ~ms_json_validate_access(value, result_ptr, MS_JSON_STRING)
    THEN Refused
    ELSE WroteStr(value.string)

ms_json_get_array_length(value, result_ptr) ==
    IF ~ms_json_validate_access(value, result_ptr, MS_JSON_ARRAY)
    THEN Refused
    ELSE WroteNum(Len(value.items))

\* index counts from 0 as in the source
ms_json_get_array_element(value, index, result_ptr) ==
    IF ~ms_json_validate_access(value, result_ptr, MS_JSON_ARRAY)
    THEN Refused
    ELSE IF index >= Len(value.items) THEN Refused
    ELSE WrotePtr(value.items[index + 1])

ms_json_get_object_size(value, result_ptr) ==
    IF ~ms_json_validate_access(value, result_ptr, MS_JSON_OBJECT)
    THEN Refused
    ELSE WroteNum(Len(value.items))

\* the first i of the for loop with strcmp(entries[i].key, key) == 0,
\* 0 when the loop ends without one
LookUp(object, key) ==
    FirstIndex({i \in 1..Len(object.items) : StrEq(object.keys[i].key, key)})

\* ms_json_get_object_value after its loop stopped at entry i
get_object_value_at(object, i) ==
    IF i = 0 THEN Refused ELSE WrotePtr(object.items[i])

ms_json_get_object_value(value, key, result_ptr) ==
    IF ~ms_json_validate_access(value, result_ptr, MS_JSON_OBJECT)
       \/ key = NullString
    THEN Refused
    ELSE get_object_value_at(value, LookUp(value, key))

ms_json_object_has_key(value, key, result_ptr) ==
    IF ~ms_json_validate_access(value, result_ptr, MS_JSON_OBJECT)
       \/ key = NullString
    THEN Refused
    ELSE WroteNum(IF LookUp(value, key) = 0 THEN 0 ELSE 1)

(***************************************************************************)
(* Containers.                                                             *)
(***************************************************************************)
\* The test with > for >=, one level too late.  The depth property is
\* checked against it.
DepthLimitPassed(ctx) ==
    ctx.options.max_depth > 0 /\ ctx.depth > ctx.options.max_depth

\* if (ctx->options.max_depth > 0 && ctx->depth >= ctx->options.max_depth)
DepthLimitReached(ctx) ==
    ctx.options.max_depth > 0 /\ ctx.depth >= ctx.options.max_depth

\* ctx->depth++, noted in entered with the position of the bracket
Enter(ctx) ==
    [ctx EXCEPT !.depth = @ + 1,
                !.entered = Append(@, <<ctx.depth + 1, ctx.position>>)]

\* a return path without its ctx->depth--
LeaveForgotten(ctx) == ctx

\* ctx->depth--
Leave(ctx) == [ctx EXCEPT !.depth = @ - 1]

\* ms_json_destroy(value, ctx->allocator)
Destroyed(ctx, value) ==
    [ctx EXCEPT !.heap = ms_json_destroy(ctx.heap, value, ctx.allocator)]

\* the test of the position left out: the byte is read wherever it is
expect_colon_unguarded(ctx) ==
    IF At(ctx, ctx.position) # Ch.colon THEN Ret(0, Looked(ctx))
    ELSE ms_json_skip_whitespace_and_comments(Stepped(ctx))

ms_json_expect_colon(ctx) ==
    IF ctx.position >= ctx.length THEN Ret(0, ctx)
    ELSE IF At(ctx, ctx.position) # Ch.colon THEN Ret(0, Looked(ctx))
    ELSE ms_json_skip_whitespace_and_comments(Stepped(ctx))

ms_json_expect_comma(ctx) ==
    IF At(ctx, ctx.position) # Ch.comma THEN Ret(0, Looked(ctx))
    ELSE ms_json_skip_whitespace_and_comments(Stepped(ctx))

\* return of a failed skip: 0 is a syntax error; a skip that does not end
\* never returns
SkipFailure(s) ==
    IF s.ctx.diverged THEN DIVERGES ELSE MS_JSON_ERROR_SYNTAX

SkipFailed(s) == s.ctx.diverged \/ s.ret = 0

RECURSIVE ms_json_parse_value(_)
RECURSIVE ms_json_parse_array_elements(_, _)
RECURSIVE ms_json_parse_object_entries(_, _)

\* ms_json_parse_array_elements after the skip s that follows the comma
array_elements_next(s, array) ==
    IF SkipFailed(s) THEN Out(SkipFailure(s), s.ctx, array)
    ELSE ms_json_parse_array_elements(s.ctx, array)

\* ms_json_parse_array_elements after the skip s that follows the element
array_elements_separator(s, array) ==
    IF SkipFailed(s) THEN Out(SkipFailure(s), s.ctx, array)
    ELSE IF s.ctx.position >= s.ctx.length
    THEN Out(MS_JSON_ERROR_EOF, s.ctx, array)
    ELSE IF At(s.ctx, s.ctx.position) = Ch.rbracket
    THEN Out(MS_JSON_SUCCESS, Stepped(s.ctx), array)
    ELSE IF At(s.ctx, s.ctx.position) # Ch.comma
    THEN Out(MS_JSON_ERROR_SYNTAX, Looked(s.ctx), array)
    ELSE array_elements_next(
             ms_json_skip_whitespace_and_comments(
                 Stepped(s.ctx)),
             array)

\* a parser that leaves the element allocated when the array refused it
array_elements_append_kept(ctx, element, a) ==
    IF a.res # MS_JSON_SUCCESS
    THEN Out(MS_JSON_ERROR_MEMORY, [ctx EXCEPT !.heap = a.h], a.target)
    ELSE array_elements_separator(
             ms_json_skip_whitespace_and_comments([ctx EXCEPT !.heap = a.h]),
             a.target)

\* ms_json_parse_array_elements after a = ms_json_array_append(array, element)
array_elements_appended(ctx, element, a) ==
    IF a.res # MS_JSON_SUCCESS
    THEN Out(MS_JSON_ERROR_MEMORY,
             Destroyed([ctx EXCEPT !.heap = a.h], element), a.target)
    ELSE array_elements_separator(
             ms_json_skip_whitespace_and_comments([ctx EXCEPT !.heap = a.h]),
             a.target)

\* ms_json_parse_array_elements after e = ms_json_parse_value(ctx, &element)
array_elements_parsed(e, array) ==
    IF e.code # MS_JSON_SUCCESS THEN Out(e.code, e.ctx, array)
    ELSE array_elements_appended(
             e.ctx, e.val, ms_json_array_append(e.ctx.heap, array, e.val))

\* One call of the operator is one test of the while condition; val is the
\* array as the calls so far have left it.
ms_json_parse_array_elements(ctx, array) ==
    IF ctx.position < ctx.length
    THEN array_elements_parsed(ms_json_parse_value(ctx), array)
    ELSE Out(MS_JSON_ERROR_EOF, ctx, array)

\* parse_array after r = ms_json_parse_array_elements(ctx, array)
parse_array_filled(r) ==
    IF r.code # MS_JSON_SUCCESS
    THEN Out(r.code, Leave(Destroyed(r.ctx, r.val)), Untouched)
    ELSE Out(MS_JSON_SUCCESS, Leave(r.ctx), r.val)

\* parse_array after the skip s that follows '['
parse_array_opened(s, array) ==
    IF SkipFailed(s)
    THEN Out(SkipFailure(s), Leave(Destroyed(s.ctx, array)), Untouched)
    ELSE IF /\ s.ctx.position < s.ctx.length
            /\ At(s.ctx, s.ctx.position) = Ch.rbracket
    THEN Out(MS_JSON_SUCCESS, Leave(Stepped(s.ctx)), array)
    ELSE parse_array_filled(ms_json_parse_array_elements(s.ctx, array))

\* parse_array after c = ms_json_create_array(ctx->allocator)
parse_array_created(ctx, c) ==
    IF ~IsValue(c.val)
    THEN Out(MS_JSON_ERROR_MEMORY, Leave([ctx EXCEPT !.heap = c.h]), Untouched)
    ELSE parse_array_opened(
             ms_json_skip_whitespace_and_comments([ctx EXCEPT !.heap = c.h]),
             c.val)

\* parse_array after ctx->depth++ and the '[' it skipped
parse_array_entered(ctx) ==
    parse_array_created(ctx, ms_json_create_array(ctx.heap, ctx.allocator))

parse_array(ctx) ==
    IF DepthLimitReached(ctx) THEN Out(MS_JSON_ERROR_DEPTH, ctx, Untouched)
    ELSE IF At(ctx, ctx.position) # Ch.lbracket
    THEN Out(MS_JSON_ERROR_SYNTAX, Looked(ctx), Untouched)
    ELSE parse_array_entered(Stepped(Enter(ctx)))

\* ms_json_parse_object_entries after com = ms_json_expect_comma(ctx)
object_entries_next(com, object) ==
    IF SkipFailed(com) THEN Out(SkipFailure(com), com.ctx, object)
    ELSE ms_json_parse_object_entries(com.ctx, object)

\* ms_json_parse_object_entries after the skip s that follows the entry
object_entries_separator(s, object) ==
    IF SkipFailed(s) THEN Out(SkipFailure(s), s.ctx, object)
    ELSE IF s.ctx.position >= s.ctx.length
    THEN Out(MS_JSON_ERROR_EOF, s.ctx, object)
    ELSE IF At(s.ctx, s.ctx.position) = Ch.rbrace
    THEN Out(MS_JSON_SUCCESS, Stepped(s.ctx), object)
    ELSE object_entries_next(ms_json_expect_comma(s.ctx), object)

\* ms_json_parse_object_entries after ms_json_destroy(key_value), set what
\* ms_json_object_set returned
object_entries_stored(ctx, value, set) ==
    IF set.res # MS_JSON_SUCCESS
    THEN Out(set.res, Destroyed(ctx, value), set.target)
    ELSE object_entries_separator(ms_json_skip_whitespace_and_comments(ctx),
                                  set.target)

\* ms_json_parse_object_entries after
\* set = ms_json_object_set(object, key, value)
object_entries_set(v, key_value, set) ==
    object_entries_stored(Destroyed([v.ctx EXCEPT !.heap = set.h], key_value),
                          v.val, set)

\* ms_json_parse_object_entries after v = ms_json_parse_value(ctx, &value)
object_entries_value(v, object, key_value, key) ==
    IF v.code # MS_JSON_SUCCESS
    THEN Out(v.code, Destroyed(v.ctx, key_value), object)
    ELSE object_entries_set(
             v, key_value, ms_json_object_set(v.ctx.heap, object, key, v.val))

\* ms_json_parse_object_entries after col = ms_json_expect_colon(ctx)
object_entries_colon(col, object, key_value, key) ==
    IF SkipFailed(col)
    THEN Out(SkipFailure(col), Destroyed(col.ctx, key_value), object)
    ELSE object_entries_value(ms_json_parse_value(col.ctx), object, key_value,
                              key)

\* ms_json_parse_object_entries after the skip s that follows the key
object_entries_key_skipped(s, object, key_value, key) ==
    IF SkipFailed(s)
    THEN Out(SkipFailure(s), Destroyed(s.ctx, key_value), object)
    ELSE object_entries_colon(ms_json_expect_colon(s.ctx), object, key_value,
                              key)

\* ms_json_parse_object_entries after g = ms_json_get_string(key_value, &key)
object_entries_key(k, g, object) ==
    IF g.res # MS_JSON_SUCCESS
    THEN Out(MS_JSON_ERROR_SYNTAX, Destroyed(k.ctx, k.val), object)
    ELSE object_entries_key_skipped(
             ms_json_skip_whitespace_and_comments(k.ctx), object, k.val, g.str)

\* ms_json_parse_object_entries after k = parse_string(ctx, &key_value)
object_entries_string(k, object) ==
    IF k.code # MS_JSON_SUCCESS THEN Out(k.code, k.ctx, object)
    ELSE object_entries_key(k, ms_json_get_string(k.val, TRUE), object)

\* One call of the operator is one test of the while condition; val is the
\* object as the calls so far have left it.
ms_json_parse_object_entries(ctx, object) ==
    IF ctx.position < ctx.length
    THEN object_entries_string(parse_string(ctx), object)
    ELSE Out(MS_JSON_ERROR_EOF, ctx, object)

\* parse_object after r = ms_json_parse_object_entries(ctx, object)
parse_object_filled(r) ==
    IF r.code # MS_JSON_SUCCESS
    THEN Out(r.code, Leave(Destroyed(r.ctx, r.val)), Untouched)
    ELSE Out(MS_JSON_SUCCESS, Leave(r.ctx), r.val)

\* parse_object after the skip s that follows '{'
parse_object_opened(s, object) ==
    IF SkipFailed(s)
    THEN Out(SkipFailure(s), Leave(Destroyed(s.ctx, object)), Untouched)
    ELSE IF /\ s.ctx.position < s.ctx.length
            /\ At(s.ctx, s.ctx.position) = Ch.rbrace
    THEN Out(MS_JSON_SUCCESS, Leave(Stepped(s.ctx)), object)
    ELSE parse_object_filled(ms_json_parse_object_entries(s.ctx, object))

\* parse_object after c = ms_json_create_object(ctx->allocator)
parse_object_created(ctx, c) ==
    IF ~IsValue(c.val)
    THEN Out(MS_JSON_ERROR_MEMORY, Leave([ctx EXCEPT !.heap = c.h]), Untouched)
    ELSE parse_object_opened(
             ms_json_skip_whitespace_and_comments([ctx EXCEPT !.heap = c.h]),
             c.val)

\* parse_object after ctx->depth++ and the '{' it skipped
parse_object_entered(ctx) ==
    parse_object_created(ctx, ms_json_create_object(ctx.heap, ctx.allocator))

parse_object(ctx) ==
    IF DepthLimitReached(ctx) THEN Out(MS_JSON_ERROR_DEPTH, ctx, Untouched)
    ELSE IF At(ctx, ctx.position) # Ch.lbrace
    THEN Out(MS_JSON_ERROR_SYNTAX, Looked(ctx), Untouched)
    ELSE parse_object_entered(Stepped(Enter(ctx)))

\* ms_json_parse_value after its skip s: the switch on the current byte
parse_value_switch(s) ==
    IF SkipFailed(s) THEN Out(SkipFailure(s), s.ctx, Untouched)
    ELSE IF s.ctx.position >= s.ctx.length
    THEN Out(MS_JSON_ERROR_EOF, s.ctx, Untouched)
    ELSE IF At(s.ctx, s.ctx.position) = Ch.n THEN parse_null(s.ctx)
    ELSE IF At(s.ctx, s.ctx.position) \in {Ch.t, Ch.f}
    THEN parse_boolean(s.ctx)
    ELSE IF At(s.ctx, s.ctx.position) = Ch.quote THEN parse_string(s.ctx)
    ELSE IF At(s.ctx, s.ctx.position) = Ch.lbracket THEN parse_array(s.ctx)
    ELSE IF At(s.ctx, s.ctx.position) = Ch.lbrace THEN parse_object(s.ctx)
    ELSE IF \/ isdigit(At(s.ctx, s.ctx.position))
            \/ At(s.ctx, s.ctx.position) = Ch.minus
    THEN parse_number(s.ctx)
    ELSE Out(MS_JSON_ERROR_SYNTAX, Looked(s.ctx), Untouched)

ms_json_parse_value(ctx) ==
    parse_value_switch(ms_json_skip_whitespace_and_comments(ctx))

(***************************************************************************)
(* Public facade: ms_json_api.c.                                           *)
(***************************************************************************)
\* the options pointer is NULL: (ms_json_options_t){0}
NullOptions ==
    [present |-> FALSE, allocator |-> NullAllocator, max_depth |-> 0,
     allow_comments |-> FALSE]

Options(max_depth, allow_comments) ==
    [present |-> TRUE, allocator |-> NullAllocator, max_depth |-> max_depth,
     allow_comments |-> allow_comments]

\* ctx.options as ms_json_parse sets it (lines 57 and 63-67)
ContextOptions(options) ==
    IF options.present THEN options
    ELSE [options EXCEPT !.max_depth = JSON_MAX_DEPTH_DEFAULT,
                         !.allow_comments = FALSE,
                         !.allocator = NullAllocator]

\* the context ms_json_parse sets up (lines 53-69), on heap h
NewContext(h, input, options) ==
    [input |-> input, position |-> 0, length |-> Len(input),
     options |-> ContextOptions(options),
     allocator |-> OrDefault(ContextOptions(options).allocator),
     depth |-> 0, heap |-> h,
     comments |-> <<>>, unclosed |-> FALSE, slash |-> FALSE,
     diverged |-> FALSE, entered |-> <<>>, outside |-> FALSE,
     retreated |-> FALSE, overran |-> FALSE, literals |-> <<>>]

\* The function without `*result = NULL`: the caller keeps the pointer to
\* the destroyed tree.  The all-or-nothing property is checked against it.
validate_no_trailing_content_dangling(s, result) ==
    IF s.ctx.diverged THEN Out(DIVERGES, s.ctx, result)
    ELSE IF s.ctx.position < s.ctx.length
    THEN Out(MS_JSON_ERROR_SYNTAX, Destroyed(s.ctx, result), result)
    ELSE Out(MS_JSON_SUCCESS, s.ctx, result)

\* ms_json_validate_no_trailing_content after its skip s
validate_no_trailing_content_at(s, result) ==
    IF s.ctx.diverged THEN Out(DIVERGES, s.ctx, result)
    ELSE IF s.ctx.position < s.ctx.length
    THEN IF IsValue(result)
         THEN Out(MS_JSON_ERROR_SYNTAX, Destroyed(s.ctx, result), NullValue)
         ELSE Out(MS_JSON_ERROR_SYNTAX, s.ctx, result)
    ELSE Out(MS_JSON_SUCCESS, s.ctx, result)

\* result is the value *result holds on entry
ms_json_validate_no_trailing_content(ctx, result) ==
    validate_no_trailing_content_at(ms_json_skip_whitespace_and_comments(ctx),
                                    result)

\* ms_json_parse after p = ms_json_parse_value(&ctx, result)
parse_validate(p) ==
    IF p.code = MS_JSON_SUCCESS
    THEN ms_json_validate_no_trailing_content(p.ctx, p.val)
    ELSE p

\* ms_json_parse after its skip s of the leading whitespace
parse_skipped(s) ==
    IF SkipFailed(s) THEN Out(SkipFailure(s), s.ctx, Untouched)
    ELSE parse_validate(ms_json_parse_value(s.ctx))

ms_json_parse(h, input, options) ==
    parse_skipped(
        ms_json_skip_whitespace_and_comments(NewContext(h, input, options)))

(***************************************************************************)
(* Serializer.  The context carries the heap; buffer holds the `position`  *)
(* bytes written so far.  A step returns [res, sc].                        *)
(***************************************************************************)
SERIALIZE_BUFFER_INITIAL_SIZE == 1024

Done(sc) == [res |-> MS_JSON_SUCCESS, sc |-> sc]

\* a buffer grown to the exact fit
NewCapacityExact(sc, needed) == sc.position + needed

\* new_capacity of ms_json_serialize_ensure_capacity
NewCapacity(sc, needed) ==
    IF sc.capacity * 2 < sc.position + needed
    THEN sc.position + needed ELSE sc.capacity * 2

\* ms_json_serialize_ensure_capacity after the reallocation m
ensure_capacity_moved(sc, m, needed, new_capacity) ==
    IF m.res # MS_MEMORY_SUCCESS
    THEN [res |-> MS_JSON_ERROR_MEMORY, sc |-> [sc EXCEPT !.heap = m.h]]
    ELSE Done([sc EXCEPT !.heap = m.h, !.bufptr = m.ptr,
                         !.capacity = new_capacity,
                         !.grown = Append(@, <<sc.position, needed,
                                               sc.capacity, new_capacity>>)])

ms_json_serialize_ensure_capacity(sc, needed) ==
    IF sc.position + needed <= sc.capacity THEN Done(sc)
    ELSE ensure_capacity_moved(
             sc,
             ms_allocator_reallocate(sc.heap, sc.allocator, sc.bufptr,
                                     NewCapacity(sc, needed)),
             needed, NewCapacity(sc, needed))

\* ms_json_serialize_append after e = ms_json_serialize_ensure_capacity
append_copy(e, data) ==
    IF e.res # MS_JSON_SUCCESS THEN e
    ELSE Done([e.sc EXCEPT !.buffer = @ \o data, !.position = @ + Len(data),
                           !.beyond = @ \/ e.sc.position + Len(data)
                                              > e.sc.capacity])

ms_json_serialize_append(sc, data) ==
    append_copy(ms_json_serialize_ensure_capacity(sc, Len(data)), data)

ms_json_serialize_null(sc) ==
    ms_json_serialize_append(sc, <<Ch.n, Ch.u, Ch.l, Ch.l>>)

ms_json_serialize_bool(value, sc) ==
    IF value # 0
    THEN ms_json_serialize_append(sc, <<Ch.t, Ch.r, Ch.u, Ch.e>>)
    ELSE ms_json_serialize_append(sc, <<Ch.f, Ch.a, Ch.l, Ch.s, Ch.e>>)

RECURSIVE Decimal(_)
Decimal(n) ==
    IF n < 10 THEN <<Ch.zero + n>>
    ELSE Append(Decimal(n \div 10), Ch.zero + (n % 10))

\* snprintf(buf, 64, "%.15g", value) for an integral value of fewer than 16
\* digits: the sign of a negative value or of -0.0, then the digits
FormatG15(neg, mag) == (IF neg THEN <<Ch.minus>> ELSE <<>>) \o Decimal(mag)

\* value is [neg, mag], never NaN or an infinity
ms_json_serialize_number(value, sc) ==
    ms_json_serialize_append(sc, FormatG15(value.neg, value.mag))

HexDigit(d) == IF d < 10 THEN Ch.zero + d ELSE Ch.a + (d - 10)

\* snprintf(escape_buffer, 8, "\\u%04x", c) for c < 0x20
UnicodeEscape(c) ==
    <<Ch.bslash, Ch.u, Ch.zero, Ch.zero, HexDigit(c \div 16), HexDigit(c % 16)>>

\* the switch of ms_json_serialize_string: what is appended for byte c
EscapeByte(c) ==
    IF c = Ch.quote THEN <<Ch.bslash, Ch.quote>>
    ELSE IF c = Ch.bslash THEN <<Ch.bslash, Ch.bslash>>
    ELSE IF c = Ch.bs THEN <<Ch.bslash, Ch.b>>
    ELSE IF c = Ch.ff THEN <<Ch.bslash, Ch.f>>
    ELSE IF c = Ch.lf THEN <<Ch.bslash, Ch.n>>
    ELSE IF c = Ch.cr THEN <<Ch.bslash, Ch.r>>
    ELSE IF c = Ch.tab THEN <<Ch.bslash, Ch.t>>
    ELSE IF c < 32 THEN UnicodeEscape(c)
    ELSE <<c>>

RECURSIVE SerializeBytes(_, _, _, _)
\* the while (*p) loop of ms_json_serialize_string after the iterations
\* before the i-th returned a: the loop goes on to the iterations i..j
\* when they appended their bytes
serialize_bytes_appended(value, i, j, a) ==
    IF a.res # MS_JSON_SUCCESS THEN a ELSE SerializeBytes(value, i, j, a.sc)

\* the iterations i..j of the while (*p) loop of ms_json_serialize_string:
\* one iteration appends the escape of its byte, and a run of iterations
\* is its first half followed by its second half
SerializeBytes(value, i, j, sc) ==
    IF i > j THEN Done(sc)
    ELSE IF i = j THEN ms_json_serialize_append(sc, EscapeByte(value[i]))
    ELSE serialize_bytes_appended(
             value, (i + j) \div 2 + 1, j,
             SerializeBytes(value, i, (i + j) \div 2, sc))

\* ms_json_serialize_string after its loop returned body
serialize_string_close(body) ==
    IF body.res # MS_JSON_SUCCESS THEN body
    ELSE ms_json_serialize_append(body.sc, <<Ch.quote>>)

\* ms_json_serialize_string after it appended the opening quote
serialize_string_open(value, open) ==
    IF open.res # MS_JSON_SUCCESS THEN open
    ELSE serialize_string_close(SerializeBytes(value, 1, Len(value), open.sc))

\* value is a C string (a String value never holds the NULL string)
ms_json_serialize_string(value, sc) ==
    serialize_string_open(value, ms_json_serialize_append(sc, <<Ch.quote>>))

RECURSIVE ms_json_serialize_value(_, _)
RECURSIVE SerializeItems(_, _, _)
RECURSIVE SerializeEntries(_, _, _)

\* if (ctx->needs_comma) result = ms_json_serialize_append(ctx, ",", 1)
SerializeComma(sc) ==
    IF sc.needs_comma # 0 THEN ms_json_serialize_append(sc, <<Ch.comma>>)
    ELSE Done(sc)

\* the loop of ms_json_serialize_array after item = ms_json_serialize_value
serialize_items_item(value, i, item) ==
    IF item.res # MS_JSON_SUCCESS THEN item
    ELSE SerializeItems(value, i + 1, [item.sc EXCEPT !.needs_comma = 1])

\* the loop of ms_json_serialize_array after the comma
serialize_items_comma(value, i, comma) ==
    IF comma.res # MS_JSON_SUCCESS THEN comma
    ELSE serialize_items_item(
             value, i, ms_json_serialize_value(value.items[i], comma.sc))

\* the for loop of ms_json_serialize_array, from index i on
SerializeItems(value, i, sc) ==
    IF i > Len(value.items) THEN Done(sc)
    ELSE serialize_items_comma(value, i, SerializeComma(sc))

\* ms_json_serialize_array / _object after the loop returned body
serialize_container_close(body, saved_needs_comma, bracket) ==
    IF body.res # MS_JSON_SUCCESS THEN body
    ELSE ms_json_serialize_append(
             [body.sc EXCEPT !.needs_comma = saved_needs_comma], <<bracket>>)

\* an array that starts with the separator state of the level above it
serialize_array_open_kept(value, open) ==
    IF open.res # MS_JSON_SUCCESS THEN open
    ELSE serialize_container_close(
             SerializeItems(value, 1, open.sc), open.sc.needs_comma,
             Ch.rbracket)

\* ms_json_serialize_array after it appended '['
serialize_array_open(value, open) ==
    IF open.res # MS_JSON_SUCCESS THEN open
    ELSE serialize_container_close(
             SerializeItems(value, 1, [open.sc EXCEPT !.needs_comma = 0]),
             open.sc.needs_comma, Ch.rbracket)

ms_json_serialize_array(value, sc) ==
    serialize_array_open(value, ms_json_serialize_append(sc, <<Ch.lbracket>>))

\* the loop of ms_json_serialize_object after
\* item = ms_json_serialize_value
serialize_entries_item(value, i, item) ==
    IF item.res # MS_JSON_SUCCESS THEN item
    ELSE SerializeEntries(value, i + 1, [item.sc EXCEPT !.needs_comma = 1])

\* the loop of ms_json_serialize_object after the colon
serialize_entries_colon(value, i, colon) ==
    IF colon.res # MS_JSON_SUCCESS THEN colon
    ELSE serialize_entries_item(
             value, i, ms_json_serialize_value(value.items[i], colon.sc))

\* the loop of ms_json_serialize_object after the key
serialize_entries_key(value, i, key) ==
    IF key.res # MS_JSON_SUCCESS THEN key
    ELSE serialize_entries_colon(
             value, i, ms_json_serialize_append(key.sc, <<Ch.colon>>))

\* the loop of ms_json_serialize_object after the comma
serialize_entries_comma(value, i, comma) ==
    IF comma.res # MS_JSON_SUCCESS THEN comma
    ELSE serialize_entries_key(
             value, i, ms_json_serialize_string(value.keys[i].key, comma.sc))

\* the for loop of ms_json_serialize_object, from index i on
SerializeEntries(value, i, sc) ==
    IF i > Len(value.items) THEN Done(sc)
    ELSE serialize_entries_comma(value, i, SerializeComma(sc))

\* ms_json_serialize_object after it appended '{'
serialize_object_open(value, open) ==
    IF open.res # MS_JSON_SUCCESS THEN open
    ELSE serialize_container_close(
             SerializeEntries(value, 1, [open.sc EXCEPT !.needs_comma = 0]),
             open.sc.needs_comma, Ch.rbrace)

ms_json_serialize_object(value, sc) ==
    serialize_object_open(value, ms_json_serialize_append(sc, <<Ch.lbrace>>))

ms_json_serialize_value(value, sc) ==
    IF value.type = MS_JSON_NULL THEN ms_json_serialize_null(sc)
    ELSE IF value.type = MS_JSON_BOOL
    THEN ms_json_serialize_bool(value.boolean, sc)
    ELSE IF value.type = MS_JSON_NUMBER
    THEN ms_json_serialize_number([neg |-> value.neg, mag |-> value.mag], sc)
    ELSE IF value.type = MS_JSON_STRING
    THEN ms_json_serialize_string(value.string, sc)
    ELSE IF value.type = MS_JSON_ARRAY THEN ms_json_serialize_array(value, sc)
    ELSE IF value.type = MS_JSON_OBJECT THEN ms_json_serialize_object(value, sc)
    ELSE [res |-> MS_JSON_ERROR_INVALID_ARGUMENT, sc |-> sc]

\* what ms_json_serialize returns when it does not set *result
NotSerialized(res, h) ==
    [res |-> res, h |-> h, written |-> FALSE, text |-> <<>>, ptr |-> NULL,
     position |-> 0, capacity |-> 0, grown |-> <<>>, beyond |-> FALSE]

\* the result with what the context sc was at the return
Observed(result, sc) ==
    [result EXCEPT !.position = sc.position, !.capacity = sc.capacity,
                   !.grown = sc.grown, !.beyond = sc.beyond]

\* ms_json_serialize after the room t for the terminating NUL
serialize_terminate(t, alloc) ==
    IF t.res # MS_JSON_SUCCESS
    THEN Observed(NotSerialized(MS_JSON_ERROR_MEMORY,
                                ms_allocator_deallocate(t.sc.heap, alloc,
                                                        t.sc.bufptr).h),
                  t.sc)
    ELSE [res |-> MS_JSON_SUCCESS, h |-> t.sc.heap, written |-> TRUE,
          text |-> t.sc.buffer, ptr |-> t.sc.bufptr,
          position |-> t.sc.position, capacity |-> t.sc.capacity,
          grown |-> t.sc.grown,
          beyond |-> t.sc.beyond \/ t.sc.position >= t.sc.capacity]

\* a serializer that leaves its buffer allocated when the value could not
\* be written
serialize_finish_kept(r, alloc) ==
    IF r.res # MS_JSON_SUCCESS THEN NotSerialized(r.res, r.sc.heap)
    ELSE IF r.sc.position >= r.sc.capacity
    THEN serialize_terminate(ms_json_serialize_ensure_capacity(r.sc, 1), alloc)
    ELSE serialize_terminate(Done(r.sc), alloc)

\* ms_json_serialize after r = ms_json_serialize_value(value, &ctx)
serialize_finish(r, alloc) ==
    IF r.res # MS_JSON_SUCCESS
    THEN Observed(NotSerialized(r.res,
                                ms_allocator_deallocate(r.sc.heap, alloc,
                                                        r.sc.bufptr).h),
                  r.sc)
    ELSE IF r.sc.position >= r.sc.capacity
    THEN serialize_terminate(ms_json_serialize_ensure_capacity(r.sc, 1), alloc)
    ELSE serialize_terminate(Done(r.sc), alloc)

\* ms_json_serialize after the allocation m of the initial buffer
serialize_begin(value, alloc, m) ==
    IF m.res # MS_MEMORY_SUCCESS THEN NotSerialized(MS_JSON_ERROR_MEMORY, m.h)
    ELSE serialize_finish(
             ms_json_serialize_value(
                 value,
                 [allocator |-> alloc, buffer |-> <<>>, bufptr |-> m.ptr,
                  position |-> 0, capacity |-> SERIALIZE_BUFFER_INITIAL_SIZE,
                  needs_comma |-> 0, heap |-> m.h, grown |-> <<>>,
                  beyond |-> FALSE]),
             alloc)

\* [res, h, written, text, ptr, position, capacity, grown, beyond]: written
\* tells whether *result was set, ptr is the buffer it then points at and
\* text the C string in it; position and capacity are those of the context
\* at the return, grown lists the growths of the buffer as <<position,
\* needed, capacity, new capacity>>, and beyond tells that a byte was
\* written at an index that is no index of the buffer
ms_json_serialize(h, value, allocator) ==
    IF ~IsValue(value) THEN NotSerialized(MS_JSON_ERROR_INVALID_ARGUMENT, h)
    ELSE serialize_begin(
             value, OrDefault(allocator),
             ms_allocator_allocate(h, OrDefault(allocator),
                                   SERIALIZE_BUFFER_INITIAL_SIZE))

(***************************************************************************)
(* The host program, text side.  It writes a text token by token out of    *)
(* one vocabulary, hands it to ms_json_parse, serializes the value it got, *)
(* parses that text again and serializes once more.                        *)
(***************************************************************************)
VARIABLES
    vocab,      \* the tokens the host program writes its text with
    options,    \* the ms_json_options_t the host passes, or NullOptions
    fail,       \* the allocation requests the system refuses in this run
    written,    \* the tokens written so far
    input,      \* the text handed to ms_json_parse
    phase,      \* "write", "parsed", "serialized", "reparsed", "done"
    parsed,     \* what ms_json_parse(input) returned
    text1,      \* what ms_json_serialize returned
    parsed2,    \* what ms_json_parse of text1 returned
    text2,      \* what ms_json_serialize of parsed2 returned
    roots,      \* the values the host owns (builder runs)
    heap,       \* the heap of the builder runs
    nops,       \* the number of builder calls made
    alloc,      \* the allocator the host passes to the builder
    last,       \* the last builder call: its arguments and what it returned
    cpu,        \* the threads of the host: where each is in its call
    mem         \* g_default_allocator and the flag of ms_allocator_default

vars == <<vocab, options, fail, written, input, phase, parsed, text1,
          parsed2, text2, roots, heap, nops, alloc, last, cpu, mem>>

Token(text) == [text |-> text, entry |-> FALSE, key |-> <<>>, num |-> 0]

\* the object entry "key":n with n a decimal digit, after a comma when it
\* is not the first of its literal
EntryToken(comma, key, n) ==
    [text |-> comma \o <<Ch.quote>> \o key
                     \o <<Ch.quote, Ch.colon, Ch.zero + n>>,
     entry |-> TRUE, key |-> key, num |-> n]

Quoted(str) == <<Ch.quote>> \o str \o <<Ch.quote>>

ObjectVocab ==
    {Token(<<Ch.lbrace>>), Token(<<Ch.rbrace>>), Token(Quoted(<<Ch.a>>)),
     Token(<<Ch.colon>>), Token(<<Ch.space>>), Token(<<Ch.zero + 1>>)}

ArrayVocab ==
    {Token(<<Ch.lbracket>>), Token(<<Ch.rbracket>>), Token(<<Ch.comma>>),
     Token(<<Ch.zero + 1>>), Token(<<Ch.zero + 2>>),
     Token(<<Ch.t, Ch.r, Ch.u, Ch.e>>)}

StringVocab ==
    {Token(<<Ch.quote>>), Token(<<Ch.bslash>>), Token(<<Ch.a>>),
     Token(<<1>>), Token(<<Ch.lbrace>>),
     Token(<<Ch.colon, Ch.zero + 1, Ch.rbrace>>)}

CommentVocab ==
    {Token(<<Ch.slash>>), Token(<<Ch.star>>), Token(<<Ch.lf>>),
     Token(<<Ch.zero + 1>>), Token(<<Ch.lbracket>>), Token(<<Ch.rbracket>>)}

NestVocab ==
    {Token(<<Ch.lbracket>>), Token(<<Ch.rbracket>>),
     Token(<<Ch.lbrace>> \o Quoted(<<Ch.a>>) \o <<Ch.colon>>),
     Token(<<Ch.rbrace>>), Token(<<Ch.lbracket, Ch.rbracket>>),
     Token(<<Ch.comma>>)}

DuplicateVocab ==
    {Token(<<Ch.lbrace>>), Token(<<Ch.rbrace>>),
     EntryToken(<<>>, <<Ch.a>>, 1), EntryToken(<<>>, <<Ch.b>>, 1),
     EntryToken(<<Ch.comma>>, <<Ch.a>>, 2),
     EntryToken(<<Ch.comma>>, <<Ch.b>>, 2)}

WithComments == Options(JSON_MAX_DEPTH_DEFAULT, TRUE)

\* the runs: a vocabulary, the options and the refused allocation requests
Setups ==
    {<<ObjectVocab, NullOptions, {}>>,
     <<ArrayVocab, NullOptions, {}>>,
     <<ArrayVocab, NullOptions, {2}>>,
     <<StringVocab, NullOptions, {}>>,
     <<CommentVocab, WithComments, {}>>,
     <<CommentVocab, NullOptions, {}>>,
     <<NestVocab, Options(0, FALSE), {}>>,
     <<NestVocab, Options(1, FALSE), {}>>,
     <<NestVocab, Options(2, FALSE), {}>>,
     <<DuplicateVocab, NullOptions, {}>>}

NoParse == Out("NONE", NewContext(EmptyHeap({}), <<>>, NullOptions), Untouched)

NoText ==
    [res |-> "NONE", h |-> EmptyHeap({}), written |-> FALSE, text |-> <<>>,
     ptr |-> NULL, position |-> 0, capacity |-> 0, grown |-> <<>>,
     beyond |-> FALSE]

\* no builder call made yet
NoCall ==
    [op |-> "none", kind |-> <<>>, res |-> "NONE", target |-> NullValue,
     key |-> <<>>, val |-> NullValue, after |-> NullValue,
     h |-> EmptyHeap({})]

\* static ms_allocator_t g_default_allocator = {0} and the static int
\* initialized = 0 of ms_allocator_default, in a build with statistics
Boot ==
    [initialized |-> 0, instance_tag |-> 0, total_allocated |-> 0,
     allocation_count |-> 0]

Start(setups) ==
    /\ \E su \in setups : vocab = su[1] /\ options = su[2] /\ fail = su[3]
    /\ written = <<>>
    /\ input = <<>>
    /\ phase = "write"
    /\ parsed = NoParse
    /\ text1 = NoText
    /\ parsed2 = NoParse
    /\ text2 = NoText
    /\ roots = <<>>
    /\ heap = EmptyHeap({})
    /\ nops = 0
    /\ alloc = DefaultAllocator
    /\ last = NoCall
    /\ cpu = <<>>
    /\ mem = Boot

Init == Start(Setups)

WriteToken(tok) ==
    /\ phase = "write"
    /\ Len(written) < MaxTokens
    /\ written' = Append(written, tok)
    /\ input' = input \o tok.text
    /\ UNCHANGED <<vocab, options, fail, phase, parsed, text1, parsed2, text2,
                   roots, heap, nops, alloc, last, cpu,
                   mem>>

\* ms_json_parse(input, &options, &value)
Parse ==
    /\ phase = "write"
    /\ parsed' = ms_json_parse(EmptyHeap(fail), input, options)
    /\ phase' = "parsed"
    /\ UNCHANGED <<vocab, options, fail, written, input, text1, parsed2, text2,
                   roots, heap, nops, alloc, last, cpu,
                   mem>>

\* ms_json_serialize(value, NULL, &text1)
Serialize ==
    /\ phase = "parsed"
    /\ parsed.code = MS_JSON_SUCCESS
    /\ text1' = ms_json_serialize(parsed.ctx.heap, parsed.val, NullAllocator)
    /\ phase' = "serialized"
    /\ UNCHANGED <<vocab, options, fail, written, input, parsed, parsed2, text2,
                   roots, heap, nops, alloc, last, cpu,
                   mem>>

\* ms_json_parse(text1, &options, &value2)
Reparse ==
    /\ phase = "serialized"
    /\ text1.res = MS_JSON_SUCCESS
    /\ parsed2' = ms_json_parse(text1.h, text1.text, options)
    /\ phase' = "reparsed"
    /\ UNCHANGED <<vocab, options, fail, written, input, parsed, text1, text2,
                   roots, heap, nops, alloc, last, cpu,
                   mem>>

\* ms_json_serialize(value2, NULL, &text2)
Reserialize ==
    /\ phase = "reparsed"
    /\ parsed2.code = MS_JSON_SUCCESS
    /\ text2' = ms_json_serialize(parsed2.ctx.heap, parsed2.val, NullAllocator)
    /\ phase' = "done"
    /\ UNCHANGED <<vocab, options, fail, written, input, parsed, text1, parsed2,
                   roots, heap, nops, alloc, last, cpu,
                   mem>>

Next ==
    \/ \E tok \in vocab : WriteToken(tok)
    \/ Parse
    \/ Serialize
    \/ Reparse
    \/ Reserialize

Spec == Init /\ [][Next]_vars

\* the runs on one vocabulary
SetupsOf(v) == {su \in Setups : su[1] = v}

InitComments == Start(SetupsOf(CommentVocab))

SpecComments == InitComments /\ [][Next]_vars

InitStrings == Start(SetupsOf(StringVocab))

SpecStrings == InitStrings /\ [][Next]_vars

InitNest == Start(SetupsOf(NestVocab))

SpecNest == InitNest /\ [][Next]_vars

InitDuplicates == Start(SetupsOf(DuplicateVocab))

SpecDuplicates == InitDuplicates /\ [][Next]_vars

\* the texts of containers in containers, before and after their siblings
SiblingVocab ==
    {Token(<<Ch.lbracket, Ch.zero + 1>>),
     Token(<<Ch.lbracket, Ch.lbracket, Ch.zero + 1, Ch.rbracket>>),
     Token(<<Ch.comma, Ch.lbracket, Ch.zero + 1, Ch.rbracket>>),
     Token(<<Ch.comma, Ch.zero + 2>>),
     Token(<<Ch.rbracket>>),
     Token(<<Ch.lbrace>> \o Quoted(<<Ch.b>>)
               \o <<Ch.colon, Ch.lbracket, Ch.zero + 1, Ch.rbracket>>),
     Token(<<Ch.comma>> \o Quoted(<<Ch.a>>)
               \o <<Ch.colon, Ch.lbrace, Ch.rbrace>>),
     Token(<<Ch.rbrace>>)}

InitSiblings == Start({<<SiblingVocab, NullOptions, {}>>})

SpecSiblings == InitSiblings /\ [][Next]_vars

\* the runs with one allocation request refused, on texts of arrays,
\* objects and strings
FailVocab ==
    {Token(<<Ch.lbracket>>), Token(<<Ch.rbracket>>),
     Token(<<Ch.lbrace>> \o Quoted(<<Ch.a>>) \o <<Ch.colon>>),
     Token(<<Ch.rbrace>>), Token(Quoted(<<Ch.a>>)), Token(<<Ch.comma>>)}

MaxRequest == 9

FailSetups == {<<FailVocab, NullOptions, {k}>> : k \in 1..MaxRequest}

InitFail == Start(FailSetups)

SpecFail == InitFail /\ [][Next]_vars

\* the runs on nested containers with a depth limit and with a refused
\* allocation request
DepthSetups ==
    {<<NestVocab, Options(1, FALSE), {}>>, <<NestVocab, Options(2, FALSE), {}>>,
     <<NestVocab, Options(2, FALSE), {2}>>,
     <<NestVocab, Options(0, FALSE), {3}>>}

InitDepth == Start(DepthSetups)

SpecDepth == InitDepth /\ [][Next]_vars

\* the host that destroys what it parsed: ms_json_destroy(value, NULL)
Destroy ==
    /\ phase = "parsed"
    /\ parsed.code # DIVERGES
    /\ heap' = ms_json_destroy(parsed.ctx.heap, parsed.val, NullAllocator)
    /\ phase' = "destroyed"
    /\ UNCHANGED <<vocab, options, fail, written, input, parsed, text1,
                   parsed2, text2, roots, nops, alloc, last, cpu, mem>>

NextDestroy ==
    \/ \E tok \in vocab : WriteToken(tok)
    \/ Parse
    \/ Destroy

InitDestroy == Start({<<FailVocab, NullOptions, {}>>})

SpecDestroy == InitDestroy /\ [][NextDestroy]_vars

\* a string of n bytes
Long(n) == [i \in 1..n |-> Ch.a]

\* an escape pair
Escaped(c) == Token(<<Ch.bslash, c>>)

\* the texts of string literals about as long as the cap: runs of a, a
\* single a and an escape pair
CapVocab ==
    {Token(<<Ch.quote>>), Token(<<Ch.a>>), Escaped(Ch.a),
     Token(Long(MAX_STRING_LENGTH \div 2 - 1)),
     Token(Long(MAX_STRING_LENGTH \div 2))}

InitCap == Start({<<CapVocab, NullOptions, {}>>})

SpecCap == InitCap /\ [][Next]_vars

\* the texts of string literals with escapes: a vocabulary holds the quote,
\* a plain byte and four of the escape pairs
EscapeVocabs ==
    {{Token(<<Ch.quote>>), Token(<<Ch.a>>), Escaped(Ch.quote),
      Escaped(Ch.bslash), Escaped(Ch.slash), Escaped(Ch.b)},
     {Token(<<Ch.quote>>), Token(<<Ch.a>>), Escaped(Ch.f), Escaped(Ch.n),
      Escaped(Ch.r), Escaped(Ch.t)},
     {Token(<<Ch.quote>>), Token(<<Ch.zero>>), Escaped(Ch.u), Escaped(Ch.n),
      Token(<<Ch.bslash>>), Token(<<Ch.a>>)}}

InitEscapes == Start({<<v, NullOptions, {}>> : v \in EscapeVocabs})

SpecEscapes == InitEscapes /\ [][Next]_vars

\* the texts of literals cut short, alone and in an array
LiteralVocab ==
    {Token(<<Ch.n, Ch.u, Ch.l>>), Token(<<Ch.l>>), Token(<<Ch.t, Ch.r, Ch.u>>),
     Token(<<Ch.e>>), Token(<<Ch.f, Ch.a, Ch.l, Ch.s>>),
     Token(<<Ch.lbracket>>)}

\* the runs that take the cursor through every routine of the parser
CursorSetups ==
    {<<LiteralVocab, NullOptions, {}>>,
     <<CommentVocab, WithComments, {}>>,
     <<StringVocab, NullOptions, {}>>,
     <<ObjectVocab, NullOptions, {}>>,
     <<ArrayVocab, NullOptions, {2}>>}

\* n blanks
Blanks(n) == [i \in 1..n |-> Ch.space]

\* the texts of one short literal or key with blanks after it, up to more
\* than twice MAX_STRING_LENGTH bytes from the opening quote on
RawVocabs ==
    {{Token(<<Ch.lbracket>> \o Quoted(<<Ch.a>>)), Token(Quoted(<<Ch.a>>)),
      Token(<<Ch.rbracket>>), Token(<<Ch.comma>>), Token(<<Ch.space>>),
      Token(Blanks(MAX_STRING_LENGTH - 2))},
     {Token(<<Ch.lbrace>> \o Quoted(<<Ch.a>>)),
      Token(<<Ch.colon, Ch.zero + 1>>), Token(<<Ch.rbrace>>),
      Token(<<Ch.comma>> \o Quoted(<<Ch.b>>)), Token(<<Ch.space>>),
      Token(Blanks(MAX_STRING_LENGTH - 2))}}

InitRaw == Start({<<v, NullOptions, {}>> : v \in RawVocabs})

SpecRaw == InitRaw /\ [][Next]_vars

InitCursor == Start(CursorSetups)

SpecCursor == InitCursor /\ [][Next]_vars

(***************************************************************************)
(* The host program, builder side.  It creates values, moves one value     *)
(* into an array or an object it owns, serializes the value it is left     *)
(* with and parses the text back (demo_json_serialization).                *)
(***************************************************************************)
Scalars ==
    {<<MS_JSON_NULL, 0, <<>>>>, <<MS_JSON_NUMBER, 7, <<>>>>,
     <<MS_JSON_STRING, 0, <<>>>>, <<MS_JSON_STRING, 0, <<Ch.a, Ch.quote>>>>}

Keys == {<<>>, <<Ch.a>>}

\* the runs of the builder host: the allocator it passes and the
\* allocation requests the system refuses
HostBuild(allocators, refused) ==
    /\ vocab = {}
    /\ options = NullOptions
    /\ fail \in refused
    /\ written = <<>>
    /\ input = <<>>
    /\ phase = "build"
    /\ parsed = NoParse
    /\ text1 = NoText
    /\ parsed2 = NoParse
    /\ text2 = NoText
    /\ roots = <<>>
    /\ heap = EmptyHeap(fail)
    /\ nops = 0
    /\ alloc \in allocators
    /\ last = NoCall

\* the host with one thread, which the model does not follow step by step
StartBuild(allocators, refused) ==
    /\ HostBuild(allocators, refused)
    /\ cpu = <<>>
    /\ mem = Boot

InitBuild == StartBuild({DefaultAllocator}, {{}})

\* what the create function of the kind returns
CreateCall(h, kind) ==
    IF kind[1] = MS_JSON_NULL THEN ms_json_create_null(h, alloc)
    ELSE IF kind[1] = MS_JSON_BOOL
    THEN ms_json_create_bool(h, alloc, kind[2])
    ELSE IF kind[1] = MS_JSON_NUMBER
    THEN ms_json_create_number(h, alloc, [neg |-> FALSE, mag |-> kind[2]])
    ELSE IF kind[1] = MS_JSON_STRING
    THEN ms_json_create_string(h, alloc, kind[3])
    ELSE IF kind[1] = MS_JSON_ARRAY
    THEN ms_json_create_array(h, alloc)
    ELSE ms_json_create_object(h, alloc)

Without(seq, j) == SubSeq(seq, 1, j - 1) \o SubSeq(seq, j + 1, Len(seq))

\* the argument of a call: a value the host owns, or the NULL pointer (0)
Arg(j) == IF j = 0 THEN NullValue ELSE roots[j]

\* the values the host owns after a call on roots[i] with roots[j] that
\* returned r: on Success the target owns the value
Owned(i, j, r) ==
    IF i = 0 THEN roots
    ELSE IF r.res = MS_JSON_SUCCESS
    THEN Without([roots EXCEPT ![i] = r.target], j)
    ELSE [roots EXCEPT ![i] = r.target]

\* the record of a call of the builder
Call(op, kind, target, key, val, r) ==
    [op |-> op, kind |-> kind, res |-> r.res, target |-> target,
     key |-> key, val |-> val, after |-> r.target, h |-> heap]

BuildFrame == <<vocab, options, fail, written, input, parsed, text1, parsed2,
                text2, alloc, cpu, mem>>

\* the host after c = ms_json_create_<kind>(alloc, ...)
Created_(kind, c) ==
    /\ heap' = c.h
    /\ roots' = IF IsValue(c.val) THEN Append(roots, c.val) ELSE roots
    /\ last' = Call("create", kind, NullValue, <<>>, c.val,
                    [res |-> "NONE", target |-> NullValue])

Create(kind) ==
    /\ phase = "build"
    /\ nops < MaxOps
    /\ Len(roots) < MaxRoots
    /\ Created_(kind, CreateCall(heap, kind))
    /\ nops' = nops + 1
    /\ UNCHANGED <<phase, BuildFrame>>

\* the host after r = ms_json_array_append(Arg(i), Arg(j))
Appended(i, j, r) ==
    /\ heap' = r.h
    /\ roots' = Owned(i, j, r)
    /\ last' = Call("append", <<>>, Arg(i), <<>>, Arg(j), r)

\* ms_json_array_append(roots[i], roots[j]), either pointer NULL or not
ArrayAppend(i, j) ==
    /\ phase = "build"
    /\ nops < MaxOps
    /\ i # j
    /\ Appended(i, j, ms_json_array_append(heap, Arg(i), Arg(j)))
    /\ nops' = nops + 1
    /\ UNCHANGED <<phase, BuildFrame>>

\* the host after r = ms_json_object_set(Arg(i), key, Arg(j))
WasSet(i, key, j, r) ==
    /\ heap' = r.h
    /\ roots' = Owned(i, j, r)
    /\ last' = Call("set", <<>>, Arg(i), key, Arg(j), r)

\* ms_json_object_set(roots[i], key, roots[j]), any pointer NULL or not
ObjectSet(i, key, j) ==
    /\ phase = "build"
    /\ nops < MaxOps
    /\ i # j
    /\ WasSet(i, key, j, ms_json_object_set(heap, Arg(i), key, Arg(j)))
    /\ nops' = nops + 1
    /\ UNCHANGED <<phase, BuildFrame>>

\* ms_json_serialize(roots[1], alloc, &json_str), the host owning one value
Emit ==
    /\ phase = "build"
    /\ Len(roots) = 1
    /\ text1' = ms_json_serialize(heap, roots[1], alloc)
    /\ phase' = "emitted"
    /\ UNCHANGED <<vocab, options, fail, written, input, parsed, parsed2,
                   text2, roots, heap, nops, alloc, last, cpu,
                   mem>>

\* ms_json_parse(json_str, NULL, &parsed)
ReadBack ==
    /\ phase = "emitted"
    /\ text1.res = MS_JSON_SUCCESS
    /\ input' = text1.text
    /\ parsed' = ms_json_parse(text1.h, text1.text, options)
    /\ phase' = "read"
    /\ UNCHANGED <<vocab, options, fail, written, text1, parsed2, text2,
                   roots, heap, nops, alloc, last, cpu,
                   mem>>

NextBuild ==
    \/ \E kind \in Scalars \cup {<<MS_JSON_ARRAY, 0, <<>>>>,
                                 <<MS_JSON_OBJECT, 0, <<>>>>} : Create(kind)
    \/ \E i \in 0..Len(roots), j \in 0..Len(roots) : ArrayAppend(i, j)
    \/ \E i \in 0..Len(roots), j \in 0..Len(roots),
          key \in Keys \cup {NullString} : ObjectSet(i, key, j)
    \/ Emit
    \/ ReadBack

SpecBuild == InitBuild /\ [][NextBuild]_vars

\* the greatest index the host asks an array for
MaxIndex == 2

\* the call op(value, key or index, &result), result_ptr FALSE for a NULL
\* output pointer
Getter(op, value, key, index, result_ptr) ==
    CASE op = "get_bool" -> ms_json_get_bool(value, result_ptr)
      [] op = "get_number" -> ms_json_get_number(value, result_ptr)
      [] op = "get_string" -> ms_json_get_string(value, result_ptr)
      [] op = "get_array_length" -> ms_json_get_array_length(value, result_ptr)
      [] op = "get_array_element" ->
             ms_json_get_array_element(value, index, result_ptr)
      [] op = "get_object_size" -> ms_json_get_object_size(value, result_ptr)
      [] op = "get_object_value" ->
             ms_json_get_object_value(value, key, result_ptr)
      [] op = "object_has_key" ->
             ms_json_object_has_key(value, key, result_ptr)

\* what the host keeps of a getter call that returned g
Got(op, value, key, index, result_ptr, g) ==
    [op |-> op, target |-> value, key |-> key, index |-> index,
     result_ptr |-> result_ptr, res |-> g.res, wrote |-> g.wrote,
     num |-> g.num, str |-> g.str, ptr |-> g.ptr]

\* one getter call on the value the host owns (i = 1) or on NULL (i = 0)
Get(op, i, key, index, result_ptr) ==
    /\ phase = "build"
    /\ Len(roots) = 1
    /\ last' = Got(op, Arg(i), key, index, result_ptr,
                   Getter(op, Arg(i), key, index, result_ptr))
    /\ phase' = "got"
    /\ UNCHANGED <<BuildFrame, roots, heap, nops>>

NextGet ==
    \/ NextBuild
    \/ Create(<<MS_JSON_BOOL, 1, <<>>>>)
    \/ \E op \in {"get_bool", "get_number", "get_string", "get_array_length",
                  "get_object_size"}, i \in 0..1, result_ptr \in BOOLEAN :
          Get(op, i, <<>>, 0, result_ptr)
    \/ \E i \in 0..1, index \in 0..MaxIndex, result_ptr \in BOOLEAN :
          Get("get_array_element", i, <<>>, index, result_ptr)
    \/ \E op \in {"get_object_value", "object_has_key"}, i \in 0..1,
          key \in Keys \cup {NullString}, result_ptr \in BOOLEAN :
          Get(op, i, key, 0, result_ptr)

SpecGet == InitBuild /\ [][NextGet]_vars

\* the lengths of the strings whose text ends at the end of the initial
\* buffer, and one byte after it
LongLengths ==
    {SERIALIZE_BUFFER_INITIAL_SIZE - 2, SERIALIZE_BUFFER_INITIAL_SIZE - 1}

\* the host that builds arrays of long strings and serializes them, one
\* allocation request refused or none
InitOutput ==
    StartBuild({DefaultAllocator}, {{}} \cup {{k} : k \in 1..MaxRequest})

NextOutput ==
    \/ \E n \in LongLengths : Create(<<MS_JSON_STRING, 0, Long(n)>>)
    \/ Create(<<MS_JSON_ARRAY, 0, <<>>>>)
    \/ \E i \in 1..Len(roots), j \in 1..Len(roots) : ArrayAppend(i, j)
    \/ Emit

SpecOutput == InitOutput /\ [][NextOutput]_vars

\* the README sequence: the host passes NULL for every allocator
InitReadme == StartBuild({NullAllocator}, {{}})

SpecReadme == InitReadme /\ [][NextBuild]_vars

\* the builder with every allocation request granted, or with the fourth
\* refused: the growth of a table after an object and a string were
\* created, the copy of a key after an object and a number were
InitBuilder == StartBuild({DefaultAllocator}, {{}, {4}})

SpecBuilder == InitBuilder /\ [][NextBuild]_vars

\* the host that fills one array or one object with up to MaxFill numbers
\* (the object under the keys a, aa, aaa, ...) and then goes on as the
\* builder host does, the system refusing none of the requests to come or
\* one of the next three
MaxFill == 8

Number(n) == [neg |-> FALSE, mag |-> n]

InitGrow ==
    /\ vocab = {}
    /\ options = NullOptions
    /\ fail = {}
    /\ written = <<>>
    /\ input = <<>>
    /\ phase = "fill"
    /\ parsed = NoParse
    /\ text1 = NoText
    /\ parsed2 = NoParse
    /\ text2 = NoText
    /\ roots = <<>>
    /\ heap = EmptyHeap(fail)
    /\ nops = 0
    /\ alloc = DefaultAllocator
    /\ last = NoCall
    /\ cpu = <<>>
    /\ mem = Boot

\* the host after c = ms_json_create_array(alloc) or ms_json_create_object
Began(c) ==
    /\ heap' = c.h
    /\ roots' = <<c.val>>

Begin(type) ==
    /\ phase = "fill"
    /\ roots = <<>>
    /\ Began(IF type = MS_JSON_ARRAY THEN ms_json_create_array(heap, alloc)
             ELSE ms_json_create_object(heap, alloc))
    /\ UNCHANGED <<phase, nops, last, BuildFrame>>

\* the host after r = ms_json_array_append(roots[1], c.val) or
\* r = ms_json_object_set(roots[1], key, c.val)
FilledBy(r) ==
    /\ heap' = r.h
    /\ roots' = <<r.target>>

\* the call that stores the number c in the container
FillCall(c) ==
    IF roots[1].type = MS_JSON_ARRAY
    THEN ms_json_array_append(c.h, roots[1], c.val)
    ELSE ms_json_object_set(c.h, roots[1], Long(Len(roots[1].items) + 1),
                            c.val)

Fill ==
    /\ phase = "fill"
    /\ Len(roots) = 1
    /\ Len(roots[1].items) < MaxFill
    /\ FilledBy(FillCall(ms_json_create_number(
                             heap, alloc, Number(Len(roots[1].items) + 1))))
    /\ UNCHANGED <<phase, nops, last, BuildFrame>>

\* the host goes on as the builder host; the two calls it may still make
\* less than the builder host are those that made the container
Grow ==
    /\ phase = "fill"
    /\ Len(roots) = 1
    /\ phase' = "build"
    /\ nops' = 2
    /\ fail' \in {{}} \cup {{heap.next + d} : d \in 0..2}
    /\ heap' = [heap EXCEPT !.fail = fail']
    /\ UNCHANGED <<vocab, options, written, input, parsed, text1, parsed2,
                   text2, roots, alloc, last, cpu, mem>>

NextGrow ==
    \/ \E type \in {MS_JSON_ARRAY, MS_JSON_OBJECT} : Begin(type)
    \/ Fill
    \/ Grow
    \/ \E kind \in {<<MS_JSON_NUMBER, 7, <<>>>>, <<MS_JSON_ARRAY, 0, <<>>>>} :
          Create(kind)
    \/ \E i \in 0..Len(roots), j \in 0..Len(roots) : ArrayAppend(i, j)
    \/ \E i \in 0..Len(roots), j \in 0..Len(roots),
          key \in {<<Ch.a>>, <<Ch.b>>, NullString} : ObjectSet(i, key, j)

SpecGrow == InitGrow /\ [][NextGrow]_vars

(***************************************************************************)
(* The host program with threads: each thread makes its first call of      *)
(* ms_allocator_default and then allocates and releases blocks of its own  *)
(* through the handle (ms_memory.c, built with MS_MEMORY_DEBUG).  One      *)
(* action is one access to the memory the threads share.                   *)
(***************************************************************************)
MaxThreads == 2

MaxCalls == 2

BlockSizes == {1, 2}

generate_guard_value == 2134530193

\* a thread before its first call; block is the size of the block it holds
Fresh ==
    [pc |-> "start", pending |-> {}, tmp |-> 0, block |-> 0, res |-> "NONE",
     calls |-> 0]

InitThreads ==
    /\ HostBuild({DefaultAllocator}, {{}})
    /\ cpu = [t \in 1..MaxThreads |-> Fresh]
    /\ mem = Boot

Host == <<vocab, options, fail, written, input, phase, parsed, text1,
          parsed2, text2, roots, heap, nops, alloc, last>>

\* ms_allocator_default: if (!initialized)
DefaultTest(t) ==
    /\ cpu[t].pc = "start"
    /\ cpu' = [cpu EXCEPT
                  ![t].pc = IF mem.initialized = 0 THEN "store" ELSE "return",
                  ![t].pending = IF mem.initialized = 0
                                 THEN {"instance_tag", "initialized"} ELSE {}]
    /\ UNCHANGED <<mem, Host>>

\* ms_allocator_default: g_default_allocator.instance_tag =
\* generate_guard_value(); initialized = 1.  The two stores are plain
\* stores to objects that other threads read without synchronization: the
\* order in which they reach the memory is not fixed.
DefaultStore(t, field) ==
    /\ cpu[t].pc = "store"
    /\ field \in cpu[t].pending
    /\ mem' = IF field = "instance_tag"
              THEN [mem EXCEPT !.instance_tag = generate_guard_value]
              ELSE [mem EXCEPT !.initialized = 1]
    /\ cpu' = [cpu EXCEPT
                  ![t].pending = @ \ {field},
                  ![t].pc = IF cpu[t].pending = {field} THEN "return"
                            ELSE "store"]
    /\ UNCHANGED Host

\* ms_allocator_default: return &g_default_allocator
DefaultReturn(t) ==
    /\ cpu[t].pc = "return"
    /\ cpu' = [cpu EXCEPT ![t].pc = "ready"]
    /\ UNCHANGED <<mem, Host>>

\* ms_allocator_allocate(handle, size, &ptr) up to record_allocation: the
\* handle is refused when is_valid_allocator does not read the tag
Allocate(t, size) ==
    /\ cpu[t].pc = "ready"
    /\ cpu[t].block = 0
    /\ cpu[t].calls < MaxCalls
    /\ cpu' = IF mem.instance_tag # generate_guard_value
              THEN [cpu EXCEPT ![t].res = MS_MEMORY_ERROR_INVALID_ARGUMENT,
                               ![t].calls = @ + 1]
              ELSE [cpu EXCEPT ![t].pc = "allocated_total",
                               ![t].block = size,
                               ![t].calls = @ + 1]
    /\ UNCHANGED <<mem, Host>>

\* ms_allocator_deallocate(handle, ptr) up to record_deallocation
Deallocate(t) ==
    /\ cpu[t].pc = "ready"
    /\ cpu[t].block # 0
    /\ cpu' = IF mem.instance_tag # generate_guard_value
              THEN [cpu EXCEPT ![t].res = MS_MEMORY_ERROR_INVALID_ARGUMENT]
              ELSE [cpu EXCEPT ![t].pc = "released_total"]
    /\ UNCHANGED <<mem, Host>>

\* the counter the statement at pc works on
Counter(pc) ==
    IF pc \in {"allocated_total", "released_total"} THEN "total_allocated"
    ELSE "allocation_count"

\* the load of a counter by total_allocated += size, allocation_count++,
\* or by the if and the -= or -- of record_deallocation
RecordLoad(t) ==
    /\ cpu[t].pc \in {"allocated_total", "allocated_count", "released_total",
                      "released_count"}
    /\ cpu[t].pending = {}
    /\ cpu' = [cpu EXCEPT ![t].tmp = mem[Counter(cpu[t].pc)],
                          ![t].pending = {Counter(cpu[t].pc)}]
    /\ UNCHANGED <<mem, Host>>

\* the value a statement of record_allocation or record_deallocation
\* stores, from the value tmp it loaded
Stored(pc, tmp, size) ==
    CASE pc = "allocated_total" -> tmp + size
      [] pc = "allocated_count" -> tmp + 1
      [] pc = "released_total" -> IF tmp >= size THEN tmp - size ELSE tmp
      [] pc = "released_count" -> IF tmp > 0 THEN tmp - 1 ELSE tmp

\* the statement after the one at pc
After(pc) ==
    CASE pc = "allocated_total" -> "allocated_count"
      [] pc = "allocated_count" -> "ready"
      [] pc = "released_total" -> "released_count"
      [] pc = "released_count" -> "free"

\* the store that ends the statement
RecordStore(t) ==
    /\ cpu[t].pc \in {"allocated_total", "allocated_count", "released_total",
                      "released_count"}
    /\ cpu[t].pending # {}
    /\ mem' = [mem EXCEPT ![Counter(cpu[t].pc)] =
                              Stored(cpu[t].pc, cpu[t].tmp, cpu[t].block)]
    /\ cpu' = [cpu EXCEPT ![t].pc = After(cpu[t].pc), ![t].pending = {},
                          ![t].res = IF cpu[t].pc = "allocated_count"
                                     THEN MS_MEMORY_SUCCESS ELSE @]
    /\ UNCHANGED Host

\* ms_allocator_deallocate: free(header); return MS_MEMORY_SUCCESS
Free(t) ==
    /\ cpu[t].pc = "free"
    /\ cpu' = [cpu EXCEPT ![t].pc = "ready", ![t].block = 0,
                          ![t].res = MS_MEMORY_SUCCESS]
    /\ UNCHANGED <<mem, Host>>

NextThreads ==
    \E t \in 1..MaxThreads :
        \/ DefaultTest(t)
        \/ \E field \in {"instance_tag", "initialized"} : DefaultStore(t, field)
        \/ DefaultReturn(t)
        \/ \E size \in BlockSizes : Allocate(t, size)
        \/ Deallocate(t)
        \/ RecordLoad(t)
        \/ RecordStore(t)
        \/ Free(t)

SpecThreads == InitThreads /\ [][NextThreads]_vars

(***************************************************************************)
(* The host program that asks for one zeroed array.                        *)
(***************************************************************************)
\* the counts and the sizes the host asks with
Extents == {0, 1, 2, 3, 255, 256, 257, 32768}

\* the host before ms_allocator_allocate_zeroed(alloc, count, size, &ptr)
Asked(count, size) ==
    [op |-> "ask", count |-> count, size |-> size, res |-> "NONE",
     ptr |-> NULL, bytes |-> 0, zeroed |-> 0]

InitZeroed ==
    /\ vocab = {}
    /\ options = NullOptions
    /\ fail \in {{}, {1}}
    /\ written = <<>>
    /\ input = <<>>
    /\ phase = "ask"
    /\ parsed = NoParse
    /\ text1 = NoText
    /\ parsed2 = NoParse
    /\ text2 = NoText
    /\ roots = <<>>
    /\ heap = EmptyHeap(fail)
    /\ nops = 0
    /\ alloc = DefaultAllocator
    /\ \E count \in Extents, size \in Extents : last = Asked(count, size)
    /\ cpu = <<>>
    /\ mem = Boot

\* the host after z = ms_allocator_allocate_zeroed(...)
Answered(z) ==
    /\ heap' = z.h
    /\ last' = [last EXCEPT !.op = "allocate_zeroed", !.res = z.res,
                            !.ptr = z.ptr, !.bytes = z.bytes,
                            !.zeroed = z.zeroed]

AllocateZeroed ==
    /\ phase = "ask"
    /\ Answered(ms_allocator_allocate_zeroed(heap, alloc, last.count,
                                             last.size))
    /\ phase' = "answered"
    /\ UNCHANGED <<BuildFrame, roots, nops>>

SpecZeroed == InitZeroed /\ [][AllocateZeroed]_vars

(***************************************************************************)
(* The host program that calls the allocator directly: it holds up to      *)
(* MaxBlocks blocks, each with the allocator it got the block from, and    *)
(* allocates, reallocates and deallocates them with any allocator.         *)
(***************************************************************************)
MaxMemOps == 3

MaxBlocks == 2

\* an instance made by ms_allocator_create()
CreatedAllocator == "ms_allocator_create"

MemAllocators == {DefaultAllocator, CreatedAllocator, NullAllocator}

\* the sizes the host asks with
MemSizes == {0, 1, SIZE_MAX - MEMORY_HEADER_SIZE, SIZE_MAX}

NoMemCall ==
    [op |-> "none", allocator |-> NullAllocator, ptr |-> NULL,
     owner |-> NullAllocator, size |-> 0, res |-> "NONE", out |-> NULL,
     h |-> EmptyHeap({})]

InitMemory ==
    /\ vocab = {}
    /\ options = NullOptions
    /\ fail \in {{}, {2}}
    /\ written = <<>>
    /\ input = <<>>
    /\ phase = "memory"
    /\ parsed = NoParse
    /\ text1 = NoText
    /\ parsed2 = NoParse
    /\ text2 = NoText
    /\ roots = <<>>
    /\ heap \in {EmptyHeap(fail), DebugHeap(fail)}
    /\ nops = 0
    /\ alloc = DefaultAllocator
    /\ last = NoMemCall
    /\ cpu = <<>>
    /\ mem = Boot

\* the block the host passes: NULL, or the i-th block it holds
Held(i) ==
    IF i = 0 THEN [ptr |-> NULL, owner |-> NullAllocator] ELSE roots[i]

\* the blocks the host holds once the block b is gone
Released(b) == SelectSeq(roots, LAMBDA x : x.ptr # b.ptr)

\* the host after r = op(allocator, b.ptr, size, &out)
MemCalled(op, allocator, b, size, r, held) ==
    /\ nops < MaxMemOps
    /\ nops' = nops + 1
    /\ heap' = r.h
    /\ roots' = held
    /\ last' = [op |-> op, allocator |-> allocator, ptr |-> b.ptr,
                owner |-> b.owner, size |-> size, res |-> r.res,
                out |-> r.ptr, h |-> heap]
    /\ UNCHANGED <<BuildFrame, phase>>

MemAllocated(allocator, size, r) ==
    MemCalled("allocate", allocator, Held(0), size, r,
              IF r.res = MS_MEMORY_SUCCESS
              THEN Append(roots, [ptr |-> r.ptr, owner |-> allocator])
              ELSE roots)

MemAllocate(allocator, size) ==
    /\ Len(roots) < MaxBlocks
    /\ MemAllocated(allocator, size,
                    ms_allocator_allocate(heap, allocator, size))

\* the host holds what the heap holds: a block that went is dropped, a
\* block that came is held with the allocator of the call
MemHeld(allocator, b, r) ==
    IF b.ptr # NULL /\ b.ptr \notin r.h.live THEN Released(b)
    ELSE IF b.ptr = NULL /\ r.ptr # NULL
    THEN Append(roots, [ptr |-> r.ptr, owner |-> allocator])
    ELSE roots

MemReallocate(allocator, i, new_size) ==
    /\ i = 0 => Len(roots) < MaxBlocks
    /\ MemCalled("reallocate", allocator, Held(i), new_size,
                 ms_allocator_reallocate(heap, allocator, Held(i).ptr,
                                         new_size),
                 MemHeld(allocator, Held(i),
                         ms_allocator_reallocate(heap, allocator,
                                                 Held(i).ptr, new_size)))

MemDeallocate(allocator, i) ==
    MemCalled("deallocate", allocator, Held(i), 0,
              ms_allocator_deallocate(heap, allocator, Held(i).ptr),
              MemHeld(allocator, Held(i),
                      ms_allocator_deallocate(heap, allocator, Held(i).ptr)))

NextMemory ==
    \/ \E allocator \in MemAllocators, size \in MemSizes :
        MemAllocate(allocator, size)
    \/ \E allocator \in MemAllocators, i \in 0..Len(roots),
          new_size \in MemSizes :
        MemReallocate(allocator, i, new_size)
    \/ \E allocator \in MemAllocators, i \in 0..Len(roots) :
        MemDeallocate(allocator, i)

SpecMemory == InitMemory /\ [][NextMemory]_vars
(***************************************************************************)
(* What the properties speak of.                                           *)
(***************************************************************************)
RECURSIVE Observe(_)
\* what the accessors give for a value: its tag, its scalars, its elements
\* in order, its keys in order
Observe(v) ==
    [type |-> v.type, boolean |-> v.boolean, neg |-> v.neg, mag |-> v.mag,
     string |-> v.string,
     keys |-> [i \in 1..Len(v.keys) |-> v.keys[i].key],
     items |-> [i \in 1..Len(v.items) |-> Observe(v.items[i])]]

RECURSIVE Blocks(_)
\* the heap blocks a tree is made of
Blocks(v) ==
    IF ~IsValue(v) THEN {}
    ELSE ({v.id, v.sid, v.tab} \ {NULL})
         \cup {v.keys[i].kid : i \in 1..Len(v.keys)}
         \cup UNION {Blocks(v.items[i]) : i \in 1..Len(v.items)}

\* the call of ms_json_parse has returned
Returned == phase = "parsed" /\ parsed.code # DIVERGES

RECURSIVE LineEnd(_, _)
\* the index after a line comment whose text starts at i: after the next
\* newline, or after the last byte
LineEnd(text, i) ==
    IF i > Len(text) THEN i
    ELSE IF text[i] = Ch.lf THEN i + 1
    ELSE LineEnd(text, i + 1)

RECURSIVE BlockEnd(_, _)
\* the index after the first "*/" at or after i, 0 when there is none
BlockEnd(text, i) ==
    IF i + 1 > Len(text) THEN 0
    ELSE IF text[i] = Ch.star /\ text[i + 1] = Ch.slash THEN i + 2
    ELSE BlockEnd(text, i + 1)

StartsWith(text, i, c1, c2) ==
    i + 1 <= Len(text) /\ text[i] = c1 /\ text[i + 1] = c2

RECURSIVE CommentSpans(_, _, _)
\* The comments of a text, read from index i on, as spans <<first, last>>:
\* "//" to the next newline or the end, "/*" to the next "*/", outside
\* string literals (quoted tells that i is inside one).  An unclosed "/*"
\* is no comment and nothing after it is one.
CommentSpans(text, i, quoted) ==
    IF i > Len(text) THEN <<>>
    ELSE IF quoted
    THEN IF text[i] = Ch.bslash THEN CommentSpans(text, i + 2, TRUE)
         ELSE CommentSpans(text, i + 1, text[i] # Ch.quote)
    ELSE IF text[i] = Ch.quote THEN CommentSpans(text, i + 1, TRUE)
    ELSE IF StartsWith(text, i, Ch.slash, Ch.slash)
    THEN <<<<i, LineEnd(text, i + 2) - 1>>>>
         \o CommentSpans(text, LineEnd(text, i + 2), FALSE)
    ELSE IF StartsWith(text, i, Ch.slash, Ch.star)
    THEN IF BlockEnd(text, i + 2) = 0 THEN <<>>
         ELSE <<<<i, BlockEnd(text, i + 2) - 1>>>>
              \o CommentSpans(text, BlockEnd(text, i + 2), FALSE)
    ELSE CommentSpans(text, i + 1, FALSE)

InSpan(spans, k) ==
    \E j \in 1..Len(spans) : spans[j][1] <= k /\ k <= spans[j][2]

\* the text with every byte of its comments replaced by a space
Blanked(text) ==
    [k \in 1..Len(text) |->
        IF InSpan(CommentSpans(text, 1, FALSE), k) THEN Ch.space ELSE text[k]]

RECURSIVE Dropped(_, _, _)
\* the text with the bytes of the spans removed, from index k on
Dropped(text, spans, k) ==
    IF k > Len(text) THEN <<>>
    ELSE IF InSpan(spans, k) THEN Dropped(text, spans, k + 1)
    ELSE <<text[k]>> \o Dropped(text, spans, k + 1)

\* the text with its comments removed
Uncommented(text) == Dropped(text, CommentSpans(text, 1, FALSE), 1)

\* two calls of ms_json_parse gave the same result
SameResult(p, q) == p.code = q.code /\ Observe(p.val) = Observe(q.val)

\* ms_json_parse of a text under the options of the run
ParseOf(text) == ms_json_parse(EmptyHeap(fail), text, options)

RECURSIVE Nesting(_, _, _, _)
\* the greatest number of arrays and objects open at once in a text, read
\* from index i on with `open` of them open, outside string literals
Nesting(text, i, open, quoted) ==
    IF i > Len(text) THEN open
    ELSE IF quoted
    THEN IF text[i] = Ch.bslash THEN Nesting(text, i + 2, open, TRUE)
         ELSE Nesting(text, i + 1, open, text[i] # Ch.quote)
    ELSE IF text[i] = Ch.quote THEN Nesting(text, i + 1, open, TRUE)
    ELSE IF text[i] \in {Ch.lbracket, Ch.lbrace}
    THEN IF Nesting(text, i + 1, open + 1, FALSE) > open + 1
         THEN Nesting(text, i + 1, open + 1, FALSE) ELSE open + 1
    ELSE IF text[i] \in {Ch.rbracket, Ch.rbrace}
    THEN IF Nesting(text, i + 1, open - 1, FALSE) > open
         THEN Nesting(text, i + 1, open - 1, FALSE) ELSE open
    ELSE Nesting(text, i + 1, open, FALSE)

\* the text is one JSON value: it parses when no depth limit is set
WellFormed(text) ==
    ms_json_parse(EmptyHeap({}), text,
                  Options(0, options.allow_comments)).code = MS_JSON_SUCCESS

(***************************************************************************)
(* C1.  Termination.                                                       *)
(***************************************************************************)
\* C1 as the specification states it: ms_json_parse returns for every text
\* and every option setting; the skip of whitespace and comments leaves its
\* loop or advances, also at a '/' followed by a byte other than '/' or '*'.
\* The code does not: with allow_comments set, ms_json_skip_comments
\* returns 1 at such a '/' without moving and the loop runs again.
C1_ParseReturns == phase = "parsed" => parsed.code # DIVERGES

(***************************************************************************)
(* C2.  Round trip from the builder.                                       *)
(***************************************************************************)
\* C2 as the specification states it: the text ms_json_serialize writes for
\* a tree made by the builder parses with Success to a tree with the same
\* tags, scalars, elements and keys, the empty string and the empty key
\* included.  The code rejects the text of an empty string.
C2_RoundTrip ==
    phase = "read" =>
        /\ parsed.code = MS_JSON_SUCCESS
        /\ Observe(parsed.val) = Observe(roots[1])

(***************************************************************************)
(* C3.  Idempotence of serialize after parse.                              *)
(***************************************************************************)
\* C3 as the specification states it: for an accepted text t the text
\* s1 = serialize(parse(t)) parses, and serialize(parse(s1)) is s1 byte for
\* byte, also when a string of t holds a raw byte below 0x20.  The code
\* writes such a byte as \u00XX and reads that back as the six bytes less
\* the backslash.
C3_Idempotent ==
    /\ phase = "reparsed" => parsed2.code = MS_JSON_SUCCESS
    /\ phase = "done" =>
           text2.res = MS_JSON_SUCCESS /\ text2.text = text1.text

(***************************************************************************)
(* C4.  Depth limit.                                                       *)
(***************************************************************************)
\* C4: with max_depth = d > 0, a JSON text nested at most d deep parses
\* with Success and one nested deeper returns MS_JSON_ERROR_DEPTH; with
\* max_depth = 0 no text returns MS_JSON_ERROR_DEPTH.
C4_DepthLimit ==
    phase = "parsed" =>
        /\ options.max_depth = 0 => parsed.code # MS_JSON_ERROR_DEPTH
        /\ (options.max_depth > 0 /\ WellFormed(input)) =>
               IF Nesting(input, 1, 0, FALSE) <= options.max_depth
               THEN parsed.code = MS_JSON_SUCCESS /\ IsValue(parsed.val)
               ELSE /\ parsed.code = MS_JSON_ERROR_DEPTH
                    /\ ~IsValue(parsed.val)

\* a JSON text nested three deep was refused under max_depth = 2
C4_Witness ==
    /\ phase = "parsed"
    /\ options.max_depth = 2
    /\ WellFormed(input)
    /\ Nesting(input, 1, 0, FALSE) = 3
    /\ parsed.code = MS_JSON_ERROR_DEPTH

(***************************************************************************)
(* C5.  All or nothing.                                                    *)
(***************************************************************************)
BraceAColonSpaceBrace ==
    <<Ch.lbrace>> \o Quoted(<<Ch.a>>) \o <<Ch.colon, Ch.space, Ch.rbrace>>

BraceASpaceOneBrace ==
    <<Ch.lbrace>> \o Quoted(<<Ch.a>>) \o <<Ch.space, Ch.zero + 1, Ch.rbrace>>

BracketOneTwoComma ==
    <<Ch.lbracket, Ch.zero + 1, Ch.comma, Ch.zero + 2, Ch.comma>>

\* C5: when ms_json_parse returns a code other than Success, the caller's
\* pointer is as it was or NULL, and nothing was released twice; the texts
\* {"a": }, [1,2, and {"a" 1} return Syntax or EOF when no allocation is
\* refused.
C5_AllOrNothing ==
    (Returned /\ parsed.code # MS_JSON_SUCCESS) =>
        /\ parsed.val \in {Untouched, NullValue}
        /\ ~parsed.ctx.heap.bad
        /\ (fail = {} /\ input \in {BraceAColonSpaceBrace,
                                     BraceASpaceOneBrace,
                                     BracketOneTwoComma}) =>
               parsed.code \in {MS_JSON_ERROR_SYNTAX, MS_JSON_ERROR_EOF}

\* {"a": } was refused with a Syntax error and nothing handed out
C5_Witness ==
    /\ phase = "parsed"
    /\ input = BraceAColonSpaceBrace
    /\ parsed.code = MS_JSON_ERROR_SYNTAX
    /\ parsed.val = Untouched
    /\ parsed.ctx.heap.live = {}

(***************************************************************************)
(* C6.  Trailing content.                                                  *)
(***************************************************************************)
\* the parse of the top-level value alone: ms_json_parse before its call of
\* ms_json_validate_no_trailing_content
TopValue ==
    LET s == ms_json_skip_whitespace_and_comments(
                 NewContext(EmptyHeap(fail), input, options))
    IN IF SkipFailed(s) THEN Out(SkipFailure(s), s.ctx, Untouched)
       ELSE ms_json_parse_value(s.ctx)

RECURSIVE AfterBlanks(_, _)
\* the index of the first byte at or after i that is neither whitespace nor
\* part of a comment (comments counting when allow_comments is set)
AfterBlanks(text, i) ==
    IF i > Len(text) THEN i
    ELSE IF isspace(text[i]) THEN AfterBlanks(text, i + 1)
    ELSE IF options.allow_comments /\ StartsWith(text, i, Ch.slash, Ch.slash)
    THEN AfterBlanks(text, LineEnd(text, i + 2))
    ELSE IF /\ options.allow_comments
            /\ StartsWith(text, i, Ch.slash, Ch.star)
            /\ BlockEnd(text, i + 2) # 0
    THEN AfterBlanks(text, BlockEnd(text, i + 2))
    ELSE i

\* C6 as the specification states it: when a byte of the text remains after
\* the top-level value and the whitespace and comments that follow it,
\* ms_json_parse returns MS_JSON_ERROR_SYNTAX, the tree is destroyed and the
\* pointer is NULL; when none remains it returns Success with the tree.
\* The code returns Success for a value followed by "/*" as the last two
\* bytes, and does not return for one followed by a lone '/'.
C6_TrailingContent ==
    (phase = "parsed" /\ TopValue.code = MS_JSON_SUCCESS) =>
        IF AfterBlanks(input, TopValue.ctx.position + 1) <= Len(input)
        THEN /\ parsed.code = MS_JSON_ERROR_SYNTAX
             /\ parsed.val = NullValue
             /\ parsed.ctx.heap.live = {}
        ELSE /\ parsed.code = MS_JSON_SUCCESS
             /\ parsed.val = TopValue.val

(***************************************************************************)
(* C7.  Unclosed block comment.                                            *)
(***************************************************************************)
\* C7 as the specification states it: with allow_comments set, a parse that
\* meets a "/*" with no "*/" after it, where whitespace may stand, returns
\* MS_JSON_ERROR_SYNTAX, before the value, inside a container or after the
\* top-level value.  After the top-level value the code drops the return
\* of the skip and looks at the position only.
C7_UnclosedComment ==
    (phase = "parsed" /\ options.allow_comments /\ parsed.ctx.unclosed) =>
        parsed.code = MS_JSON_ERROR_SYNTAX

(***************************************************************************)
(* C8.  Comments.                                                          *)
(***************************************************************************)
\* C8, amended: with allow_comments set the result of a parse is that of
\* the text with every byte of its line comments (to the newline, or the
\* end) and closed block comments replaced by a space; with allow_comments
\* clear a parse that meets a '/' where whitespace may stand returns
\* MS_JSON_ERROR_SYNTAX.
C8_CommentsAreBlanks ==
    phase = "parsed" =>
        /\ options.allow_comments =>
               SameResult(parsed, ParseOf(Blanked(input)))
        /\ (~options.allow_comments /\ parsed.ctx.slash) =>
               /\ parsed.code = MS_JSON_ERROR_SYNTAX
               /\ ~IsValue(parsed.val)

\* C8 as the specification states it: the result is that of the text with
\* the comments removed.
C8_CommentsRemoved ==
    (phase = "parsed" /\ options.allow_comments) =>
        SameResult(parsed, ParseOf(Uncommented(input)))

\* a line comment and its newline were skipped before the value 1
C8_Witness ==
    /\ phase = "parsed"
    /\ options.allow_comments
    /\ CommentSpans(input, 1, FALSE) = <<<<1, 3>>>>
    /\ parsed.ctx.comments # <<>>
    /\ input[3] = Ch.lf
    /\ parsed.code = MS_JSON_SUCCESS
    /\ parsed.val.type = MS_JSON_NUMBER
    /\ parsed.val.mag = 1

(***************************************************************************)
(* C9.  Duplicate keys.                                                    *)
(***************************************************************************)
\* the tokens written are an object literal: '{', an entry, entries led by
\* a comma, '}'
IsObjectLiteral(tokens) ==
    /\ Len(tokens) >= 2
    /\ tokens[1].text = <<Ch.lbrace>>
    /\ tokens[Len(tokens)].text = <<Ch.rbrace>>
    /\ \A i \in 2..(Len(tokens) - 1) :
           /\ tokens[i].entry
           /\ (tokens[i].text[1] = Ch.comma) <=> (i > 2)

\* the entries of an object literal
Entries(tokens) == SubSeq(tokens, 2, Len(tokens) - 1)

RECURSIVE FirstKeys(_, _)
\* the keys of the entries in the order of their first occurrence
FirstKeys(entries, seen) ==
    IF entries = <<>> THEN seen
    ELSE FirstKeys(Tail(entries),
                   IF \E i \in 1..Len(seen) : seen[i] = Head(entries).key
                   THEN seen ELSE Append(seen, Head(entries).key))

\* the value the last entry of the key gives
LastNum(entries, key) ==
    entries[CHOOSE i \in 1..Len(entries) :
                /\ entries[i].key = key
                /\ \A j \in (i + 1)..Len(entries) : entries[j].key # key].num

HasDuplicate(entries) ==
    \E i, j \in 1..Len(entries) : i < j /\ entries[i].key = entries[j].key

\* C9: the parse of an object literal gives an object with one entry for
\* each key, at the place of the key's first occurrence, holding the value
\* of its last occurrence; the values given before are released, the heap
\* holding the blocks of the tree and no other.
C9_DuplicateKeys ==
    (phase = "parsed" /\ IsObjectLiteral(written)) =>
        /\ parsed.code = MS_JSON_SUCCESS
        /\ parsed.val.type = MS_JSON_OBJECT
        /\ [i \in 1..Len(parsed.val.keys) |-> parsed.val.keys[i].key]
               = FirstKeys(Entries(written), <<>>)
        /\ Len(parsed.val.items) = Len(parsed.val.keys)
        /\ \A i \in 1..Len(parsed.val.items) :
               /\ parsed.val.items[i].type = MS_JSON_NUMBER
               /\ ~parsed.val.items[i].neg
               /\ parsed.val.items[i].mag
                      = LastNum(Entries(written), parsed.val.keys[i].key)
        /\ parsed.ctx.heap.live = Blocks(parsed.val)
        /\ ~parsed.ctx.heap.bad

\* {"a":1,"b":2,"a":2} was parsed to the object a: 2, b: 2
C9_Witness ==
    /\ phase = "parsed"
    /\ IsObjectLiteral(written)
    /\ HasDuplicate(Entries(written))
    /\ Len(Entries(written)) = 3
    /\ [i \in 1..3 |-> <<Entries(written)[i].key, Entries(written)[i].num>>]
           = <<<<<<Ch.a>>, 1>>, <<<<Ch.b>>, 2>>, <<<<Ch.a>>, 2>>>>
    /\ parsed.code = MS_JSON_SUCCESS
    /\ Len(parsed.val.keys) = 2
    /\ parsed.val.keys[1].key = <<Ch.a>>
    /\ parsed.val.items[1].mag = 2

(***************************************************************************)
(* C10.  String literals.                                                  *)
(***************************************************************************)
RECURSIVE ClosingQuote(_, _)
\* the index of the first unescaped '"' at or after i, 0 when the text ends
\* before it or right after a backslash
ClosingQuote(text, i) ==
    IF i > Len(text) THEN 0
    ELSE IF text[i] = Ch.quote THEN i
    ELSE IF text[i] = Ch.bslash
    THEN IF i + 1 > Len(text) THEN 0 ELSE ClosingQuote(text, i + 2)
    ELSE ClosingQuote(text, i + 1)

RECURSIVE Decoded(_)
\* the content of a string literal with its escapes decoded
Decoded(content) ==
    IF content = <<>> THEN <<>>
    ELSE IF Head(content) = Ch.bslash
    THEN <<ms_json_decode_escape(content[2])>>
         \o Decoded(SubSeq(content, 3, Len(content)))
    ELSE <<Head(content)>> \o Decoded(Tail(content))

\* the text starts with a string literal
StartsLiteral(text) == Len(text) >= 1 /\ text[1] = Ch.quote

\* the content of the literal the text starts with
Content(text) == SubSeq(text, 2, ClosingQuote(text, 2) - 1)

\* the text is '{', a string literal, and ":1}"
IsKeyLiteral(text) ==
    /\ Len(text) >= 2
    /\ text[1] = Ch.lbrace
    /\ StartsLiteral(Tail(text))
    /\ ClosingQuote(Tail(text), 2) # 0
    /\ SubSeq(text, ClosingQuote(Tail(text), 2) + 2, Len(text))
           = <<Ch.colon, Ch.zero + 1, Ch.rbrace>>

\* C10 as the specification states it: a text that is a closed string
\* literal parses to a String holding the decoded content, "" included; a
\* closed literal as the key of an object parses to that key, "" included;
\* a literal that ends before its closing quote or right after a backslash
\* is refused.  The code refuses the literal with no content.
C10_StringLiterals ==
    phase = "parsed" =>
        /\ (StartsLiteral(input) /\ ClosingQuote(input, 2) = Len(input)) =>
               /\ parsed.code = MS_JSON_SUCCESS
               /\ parsed.val.type = MS_JSON_STRING
               /\ parsed.val.string = Decoded(Content(input))
        /\ IsKeyLiteral(input) =>
               /\ parsed.code = MS_JSON_SUCCESS
               /\ parsed.val.type = MS_JSON_OBJECT
               /\ Len(parsed.val.keys) = 1
               /\ parsed.val.keys[1].key = Decoded(Content(Tail(input)))
        /\ (StartsLiteral(input) /\ ClosingQuote(input, 2) = 0) =>
               /\ parsed.code \in {MS_JSON_ERROR_SYNTAX, MS_JSON_ERROR_EOF}
               /\ ~IsValue(parsed.val)


(***************************************************************************)
(* C11.  The NULL allocator.                                               *)
(***************************************************************************)
\* the last call had arguments the function accepts
ValidAppend ==
    /\ last.op = "append"
    /\ last.target.type = MS_JSON_ARRAY
    /\ IsValue(last.val)

ValidSet ==
    /\ last.op = "set"
    /\ last.target.type = MS_JSON_OBJECT
    /\ last.key # NullString
    /\ IsValue(last.val)

\* C11 as the specification states it: with NULL passed for the allocator
\* ms_json_create_string of a string returns a String holding it, and an
\* array or object created so takes an element or an entry with Success.
\* The code hands the NULL it was given, not the default allocator it
\* fell back to, to the allocation of the copy and to the tables.
C11_NullAllocator ==
    (alloc = NullAllocator /\ fail = {}) =>
        /\ (last.op = "create" /\ last.kind[1] = MS_JSON_STRING) =>
               /\ last.val.type = MS_JSON_STRING
               /\ last.val.string = last.kind[3]
        /\ (ValidAppend \/ ValidSet) =>
               /\ last.res = MS_JSON_SUCCESS
               /\ Len(last.after.items) = Len(last.target.items) + 1


(***************************************************************************)
(* C12.  The entries of an object.                                         *)
(***************************************************************************)
\* the index of the first entry of an object with the key, 0 for none
KeyIndex(object, key) ==
    FirstIndex({i \in 1..Len(object.keys) : object.keys[i].key = key})

RECURSIVE DistinctKeys(_)
\* no object of the tree holds a key twice
DistinctKeys(v) ==
    /\ \A i, j \in 1..Len(v.keys) :
           v.keys[i].key = v.keys[j].key => i = j
    /\ \A i \in 1..Len(v.items) : DistinctKeys(v.items[i])

\* the last call was an ms_json_object_set that returned Success
DidSet == ValidSet /\ last.res = MS_JSON_SUCCESS

\* the entry the last ms_json_object_set found for its key, 0 for none
Found == KeyIndex(last.target, last.key)

LeftAlone ==
    /\ Observe(last.after) = Observe(last.target)
    /\ Blocks(last.target) \subseteq heap.live
    /\ Blocks(last.val) \subseteq heap.live
    /\ ~heap.bad

\* C13: ms_json_object_set returns InvalidArgument for a target that is
\* NULL or no object, a NULL key or a NULL value, and otherwise Success or,
\* when the growth of the table or the copy of the key is refused, Memory;
\* when it fails the entries of the object are as before the call and the
\* value is neither stored nor destroyed.
C13_FailedSet ==
    last.op = "set" =>
        /\ ~ValidSet <=> last.res = MS_JSON_ERROR_INVALID_ARGUMENT
        /\ last.res \in {MS_JSON_SUCCESS, MS_JSON_ERROR_INVALID_ARGUMENT,
                         MS_JSON_ERROR_MEMORY}
        /\ last.res = MS_JSON_ERROR_MEMORY =>
               /\ fail # {}
               /\ Found = 0
        /\ last.res # MS_JSON_SUCCESS => LeftAlone
        /\ last.res = MS_JSON_ERROR_INVALID_ARGUMENT =>
               /\ last.after = last.target
               /\ heap = last.h

\* the copy of the key was refused after the table had grown: the object
\* has no entry and the number is still allocated
C13_Witness ==
    /\ last.op = "set"
    /\ last.res = MS_JSON_ERROR_MEMORY
    /\ last.after.capacity > last.target.capacity
    /\ Len(last.after.items) = 0
    /\ last.val.type = MS_JSON_NUMBER
    /\ last.val.id \in heap.live

(***************************************************************************)
(* C14.  ms_json_array_append.                                             *)
(***************************************************************************)
\* C14: ms_json_array_append returns InvalidArgument for a target that is
\* NULL or no array or a NULL element, Memory when the growth of the table
\* is refused; in both cases the elements of the array are as before and
\* the element is neither stored nor destroyed.  On Success the element
\* stands after the elements the array had, which keep their places.
C14_ArrayAppend ==
    last.op = "append" =>
        /\ ~ValidAppend <=> last.res = MS_JSON_ERROR_INVALID_ARGUMENT
        /\ last.res \in {MS_JSON_SUCCESS, MS_JSON_ERROR_INVALID_ARGUMENT,
                         MS_JSON_ERROR_MEMORY}
        /\ last.res = MS_JSON_ERROR_MEMORY =>
               /\ fail # {}
               /\ Len(last.target.items) >= last.target.capacity
        /\ last.res # MS_JSON_SUCCESS =>
               /\ LeftAlone
               /\ heap.live = last.h.live
        /\ last.res = MS_JSON_SUCCESS =>
               /\ last.after.items = Append(last.target.items, last.val)
               /\ heap.live = last.h.live \cup {last.after.tab}
               /\ ~heap.bad

\* the growth of the table was refused: the array is empty and the string
\* is still allocated
C14_Witness ==
    /\ last.op = "append"
    /\ last.res = MS_JSON_ERROR_MEMORY
    /\ last.target.type = MS_JSON_ARRAY
    /\ Len(last.after.items) = 0
    /\ last.val.type = MS_JSON_STRING
    /\ {last.val.id, last.val.sid} \subseteq heap.live


(***************************************************************************)
(* C15.  Nothing is left allocated by a failed parse.                      *)
(***************************************************************************)
\* C15 as the specification states it: when ms_json_parse returns a code
\* other than Success, every block allocated during the call has been
\* released once: none is left allocated and none was released twice.
C15_NothingLeft ==
    (Returned /\ parsed.code # MS_JSON_SUCCESS) =>
        /\ parsed.ctx.heap.live = {}
        /\ ~parsed.ctx.heap.bad

\* the ninth request of a parse was refused, after eight blocks were handed
\* out to containers, strings and keys, and the parse reported it
C15_Witness ==
    /\ Returned
    /\ fail = {MaxRequest}
    /\ parsed.code = MS_JSON_ERROR_MEMORY
    /\ parsed.ctx.heap.next > MaxRequest

(***************************************************************************)
(* C16.  The typed getters.                                                *)
(***************************************************************************)
\* the type a getter expects of its value
Expected(op) ==
    CASE op = "get_bool" -> MS_JSON_BOOL
      [] op = "get_number" -> MS_JSON_NUMBER
      [] op = "get_string" -> MS_JSON_STRING
      [] op \in {"get_array_length", "get_array_element"} -> MS_JSON_ARRAY
      [] OTHER -> MS_JSON_OBJECT

\* the last getter call had a null value, a null output pointer or a value
\* of another type
BadAccess ==
    \/ ~IsValue(last.target)
    \/ ~last.result_ptr
    \/ last.target.type # Expected(last.op)

\* what object_has_key says of the object and key of the last call
HasKey == ms_json_object_has_key(last.target, last.key, TRUE)

\* C16 as the specification states it: every typed getter returns
\* InvalidArgument and writes nothing when the value is null, the output
\* pointer is null or the type of the value is not the expected one;
\* get_array_element also returns InvalidArgument for an index that is not
\* below the count; get_object_value succeeds for a key exactly when
\* object_has_key reports 1 for it, and then gives the value of the first
\* entry, in insertion order, whose key equals it.
C16_TypedGetters ==
    phase = "got" =>
        /\ BadAccess =>
               last.res = MS_JSON_ERROR_INVALID_ARGUMENT /\ ~last.wrote
        /\ (/\ last.op = "get_array_element"
            /\ ~BadAccess
            /\ last.index >= Len(last.target.items)) =>
               last.res = MS_JSON_ERROR_INVALID_ARGUMENT
        /\ (last.op = "get_object_value" /\ ~BadAccess) =>
               /\ (last.res = MS_JSON_SUCCESS) <=>
                      (HasKey.wrote /\ HasKey.num = 1)
               /\ last.res = MS_JSON_SUCCESS =>
                      \E i \in 1..Len(last.target.items) :
                          /\ last.target.keys[i].key = last.key
                          /\ \A j \in 1..(i - 1) :
                                 last.target.keys[j].key # last.key
                          /\ last.wrote
                          /\ last.ptr = last.target.items[i]

\* get_object_value looked up the key of the second of two entries and
\* found it
C16_Witness ==
    /\ phase = "got"
    /\ last.op = "get_object_value"
    /\ ~BadAccess
    /\ Len(last.target.items) = 2
    /\ last.target.keys[2].key = last.key
    /\ last.res = MS_JSON_SUCCESS

(***************************************************************************)
(* C17.  Separators of the serialized containers.                          *)
(***************************************************************************)
\* the text of a value that is not a container
Leaf(v) == ms_json_serialize(EmptyHeap({}), v, DefaultAllocator).text

\* the text of a key
KeyText(key) == Leaf([Blank(MS_JSON_STRING) EXCEPT !.string = key])

RECURSIVE Joined(_, _)
\* the texts from the i-th on, one comma before each but the first
Joined(texts, i) ==
    IF i > Len(texts) THEN <<>>
    ELSE (IF i > 1 THEN <<Ch.comma>> ELSE <<>>) \o texts[i]
             \o Joined(texts, i + 1)

RECURSIVE Listed(_)
\* the children of a container in stored order between its brackets, one
\* comma between two that follow each other
Listed(v) ==
    IF v.type = MS_JSON_ARRAY
    THEN <<Ch.lbracket>>
             \o Joined([i \in 1..Len(v.items) |-> Listed(v.items[i])], 1)
             \o <<Ch.rbracket>>
    ELSE IF v.type = MS_JSON_OBJECT
    THEN <<Ch.lbrace>>
             \o Joined([i \in 1..Len(v.items) |->
                           KeyText(v.keys[i].key) \o <<Ch.colon>>
                               \o Listed(v.items[i])], 1)
             \o <<Ch.rbrace>>
    ELSE Leaf(v)

\* C17 as the specification states it: the text of an array or object
\* lists its children in stored order (an entry as key, ':', value) between
\* the brackets, with one ',' between two siblings and none after the
\* opening or before the closing bracket, at every level of nesting.
C17_Separators ==
    (phase = "serialized" /\ text1.res = MS_JSON_SUCCESS) =>
        text1.text = Listed(parsed.val)

\* [1,[1],2] was serialized: a container after a sibling and a sibling
\* after a container
C17_Witness ==
    /\ phase = "serialized"
    /\ text1.res = MS_JSON_SUCCESS
    /\ parsed.val.type = MS_JSON_ARRAY
    /\ Len(parsed.val.items) = 3
    /\ parsed.val.items[2].type = MS_JSON_ARRAY
    /\ Len(parsed.val.items[2].items) = 1
    /\ text1.text = <<Ch.lbracket, Ch.zero + 1, Ch.comma, Ch.lbracket,
                      Ch.zero + 1, Ch.rbracket, Ch.comma, Ch.zero + 2,
                      Ch.rbracket>>

(***************************************************************************)
(* C18.  A serialization that runs out of memory.                          *)
(***************************************************************************)
\* a request made during the call of ms_json_serialize was refused: heap is
\* the heap the call started on and text1.h the heap it left
RefusedInside ==
    \E k \in fail : heap.next <= k /\ k < text1.h.next

\* C18 as the specification states it: when the allocation of the initial
\* buffer or a growth of the buffer fails during ms_json_serialize, the
\* call returns MS_JSON_ERROR_MEMORY, the buffer is released once (the
\* blocks allocated after the call are those allocated before it, and none
\* was released twice), and the result pointer of the caller is not
\* written.
C18_OutOfMemory ==
    (phase = "emitted" /\ RefusedInside) =>
        /\ text1.res = MS_JSON_ERROR_MEMORY
        /\ ~text1.written
        /\ text1.h.live = heap.live
        /\ ~text1.h.bad

\* a growth of the buffer was refused after the initial buffer was given
C18_Witness ==
    /\ phase = "emitted"
    /\ RefusedInside
    /\ text1.h.next >= heap.next + 2
    /\ text1.res = MS_JSON_ERROR_MEMORY

(***************************************************************************)
(* C19.  The default allocator shared by threads.                          *)
(***************************************************************************)
\* the thread is not inside ms_allocator_allocate or ms_allocator_deallocate
Between(t) == cpu[t].pc \in {"start", "store", "return", "ready"}

RECURSIVE LiveBytes(_)
\* the sizes of the blocks the threads 1..n hold, added up
LiveBytes(n) == IF n = 0 THEN 0 ELSE cpu[n].block + LiveBytes(n - 1)

\* C19 as the specification states it: every call through the handle that
\* ms_allocator_default returned is accepted (the instance tag is set
\* before the handle is used), and, no call being under way,
\* allocation_count and total_allocated are the number and the total size
\* of the blocks that are allocated.
C19_SharedAllocator ==
    /\ \A t \in DOMAIN cpu : cpu[t].res # MS_MEMORY_ERROR_INVALID_ARGUMENT
    /\ (\A t \in DOMAIN cpu : Between(t)) =>
           /\ mem.allocation_count =
                  Cardinality({t \in DOMAIN cpu : cpu[t].block # 0})
           /\ mem.total_allocated = LiveBytes(Len(cpu))

(***************************************************************************)
(* C20.  ms_allocator_allocate_zeroed.                                     *)
(***************************************************************************)
\* C20 as the specification states it: with a valid allocator and a count
\* of 0 the call returns MS_MEMORY_SUCCESS with *result = NULL; with a
\* count above 0 it returns Overflow when size is 0 or count * size is
\* above SIZE_MAX, and otherwise (the block and its header fitting a size_t
\* and the system granting the request) a block of count * size bytes that
\* are all zero.
C20_AllocateZeroed ==
    phase = "answered" =>
        /\ last.count = 0 =>
               last.res = MS_MEMORY_SUCCESS /\ last.ptr = NULL
        /\ (last.count > 0
               /\ (last.size = 0 \/ last.count * last.size > SIZE_MAX)) =>
               last.res = MS_MEMORY_ERROR_OVERFLOW
        /\ (/\ last.count > 0
            /\ last.size > 0
            /\ last.count * last.size <= SIZE_MAX - MEMORY_HEADER_SIZE
            /\ fail = {}) =>
               /\ last.res = MS_MEMORY_SUCCESS
               /\ last.ptr # NULL
               /\ last.bytes = last.count * last.size
               /\ last.zeroed = last.bytes

(***************************************************************************)
(* C21.  Whenever ms_allocator_reallocate fails for a block and a size     *)
(* that is not 0 (out of memory, a size that overflows, a header that      *)
(* fails validation), the block is still allocated as it was and *result   *)
(* is the original pointer; with a NULL pointer the call is                *)
(* ms_allocator_allocate, with size 0 it is ms_allocator_deallocate.       *)
(***************************************************************************)
ReallocateFailed ==
    /\ last.op = "reallocate"
    /\ last.ptr # NULL
    /\ last.size > 0
    /\ last.res \in {MS_MEMORY_ERROR_OUT_OF_MEMORY, MS_MEMORY_ERROR_OVERFLOW,
                     MS_MEMORY_ERROR_CORRUPTED}

\* the call's code, *result and the heap it leaves
Effect(r) == <<r.res, r.ptr, r.h>>

C21_ReallocateFailure ==
    /\ ReallocateFailed
        => /\ last.ptr \in heap.live
           /\ heap.live = last.h.live
           /\ heap.headers = last.h.headers
           /\ last.out = last.ptr
    /\ last.op = "reallocate" /\ last.ptr = NULL
        => <<last.res, last.out, heap>>
           = Effect(ms_allocator_allocate(last.h, last.allocator, last.size))
    /\ last.op = "reallocate" /\ last.ptr # NULL /\ last.size = 0
        => <<last.res, last.out, heap>>
           = Effect(ms_allocator_deallocate(last.h, last.allocator, last.ptr))

(***************************************************************************)
(* C22.  ms_allocator_deallocate frees a block only for the allocator that *)
(* allocated it: with another valid allocator it returns Corrupted and the *)
(* block stays allocated; with a NULL pointer it does nothing and returns  *)
(* Success.                                                                *)
(***************************************************************************)
\* the last call was a deallocation with a valid allocator that is not the
\* one the block came from
DeallocatedByOther ==
    /\ last.op = "deallocate"
    /\ last.ptr # NULL
    /\ is_valid_allocator(last.allocator)
    /\ last.allocator # last.owner

C22_DeallocateOwner ==
    /\ DeallocatedByOther
        => /\ last.res = MS_MEMORY_ERROR_CORRUPTED
           /\ last.ptr \in heap.live
    /\ last.op = "deallocate" /\ last.ptr = NULL
        => last.res = MS_MEMORY_SUCCESS /\ heap = last.h

(***************************************************************************)
(* C23.  Escape decoding.  In an accepted string literal a backslash and   *)
(* one of " \ / b f n r t decode to one byte (quote, backslash, slash,     *)
(* 8, 12, 10, 13, 9), a backslash and any other byte decode to that byte   *)
(* (\u0000 gives the five bytes u0000), every other byte is copied as it   *)
(* is, and the decoded string has one byte for each unit the scan counted. *)
(***************************************************************************)
\* the byte the claim gives for a backslash followed by c
EscapeTable(c) ==
    CASE c = Ch.quote -> 34
      [] c = Ch.bslash -> 92
      [] c = Ch.slash -> 47
      [] c = Ch.b -> 8
      [] c = Ch.f -> 12
      [] c = Ch.n -> 10
      [] c = Ch.r -> 13
      [] c = Ch.t -> 9
      [] OTHER -> c

RECURSIVE Unescaped(_, _)
\* the bytes the claim gives for body from its i-th byte on
Unescaped(body, i) ==
    IF i > Len(body) THEN <<>>
    ELSE IF body[i] = Ch.bslash /\ i < Len(body)
    THEN <<EscapeTable(body[i + 1])>> \o Unescaped(body, i + 2)
    ELSE <<body[i]>> \o Unescaped(body, i + 1)

\* the literal between its quotes
Body == SubSeq(input, 2, Len(input) - 1)

\* the units the scan of the literal counted
Units ==
    StringScan(NewContext(EmptyHeap({}), input, options), 1, 0,
               Len(input)).content_length

StringAccepted ==
    /\ Returned
    /\ parsed.code = MS_JSON_SUCCESS
    /\ parsed.val.type = MS_JSON_STRING

OpenBefore(text, p) ==
    Cardinality({i \in 1..p : text[i] \in {Ch.lbracket, Ch.lbrace}})
    - Cardinality({i \in 1..p : text[i] \in {Ch.rbracket, Ch.rbrace}})

\* the text before the cursor
Consumed == SubSeq(input, 1, parsed.ctx.position)

C24_DepthBalance ==
    Returned
        => /\ parsed.ctx.depth = 0
           /\ \A k \in 1..Len(parsed.ctx.entered) :
                 /\ parsed.ctx.entered[k][1]
                        = OpenBefore(input, parsed.ctx.entered[k][2]) + 1
                 /\ parsed.ctx.options.max_depth > 0
                        => parsed.ctx.entered[k][1]
                              <= parsed.ctx.options.max_depth
           /\ parsed.code = MS_JSON_ERROR_DEPTH
                 => /\ \A k \in 1..Len(parsed.ctx.entered) :
                          parsed.ctx.entered[k][2] # parsed.ctx.position
                    /\ OpenBefore(input, parsed.ctx.position)
                          = parsed.ctx.options.max_depth
                    /\ parsed.ctx.heap.next = ParseOf(Consumed).ctx.heap.next

\* a container refused inside an array inside an object, and the two that
\* were open destroyed
C24_Witness ==
    /\ Returned
    /\ parsed.code = MS_JSON_ERROR_DEPTH
    /\ parsed.ctx.entered = <<<<1, 0>>, <<2, 5>>>>
    /\ parsed.ctx.position = 6
    /\ parsed.ctx.heap.next > 2
    /\ parsed.ctx.heap.live = {}

(***************************************************************************)
(* C25.  ms_json_destroy on the root of a tree releases every block that   *)
(* can be reached from it (value nodes, string buffers, key copies, item   *)
(* and entry tables) exactly once, and the blocks below a node before the  *)
(* node; ms_json_destroy(NULL, a) does nothing.                            *)
(***************************************************************************)
RECURSIVE Subtrees(_)
\* the nodes of a tree
Subtrees(v) ==
    IF ~IsValue(v) THEN {}
    ELSE {v} \cup UNION {Subtrees(v.items[i]) : i \in 1..Len(v.items)}

\* the blocks ms_json_destroy freed, in order
Releases ==
    SubSeq(heap.freed, Len(parsed.ctx.heap.freed) + 1, Len(heap.freed))

\* where the block b was freed
ReleaseOf(b) == CHOOSE i \in 1..Len(Releases) : Releases[i] = b

C25_Destroy ==
    phase = "destroyed"
        => IF IsValue(parsed.val)
           THEN /\ Blocks(parsed.val) \subseteq parsed.ctx.heap.live
                /\ heap.live = parsed.ctx.heap.live \ Blocks(parsed.val)
                /\ ~heap.bad
                /\ {Releases[i] : i \in 1..Len(Releases)} = Blocks(parsed.val)
                /\ Len(Releases) = Cardinality(Blocks(parsed.val))
                /\ \A v \in Subtrees(parsed.val) :
                      \A b \in Blocks(v) \ {v.id} :
                          ReleaseOf(b) < ReleaseOf(v.id)
           ELSE heap = parsed.ctx.heap

\* an object destroyed whose entry is an array of a string
C25_Witness ==
    /\ phase = "destroyed"
    /\ parsed.val.type = MS_JSON_OBJECT
    /\ Len(parsed.val.items) = 1
    /\ parsed.val.items[1].type = MS_JSON_ARRAY
    /\ Len(parsed.val.items[1].items) = 1
    /\ parsed.val.items[1].items[1].type = MS_JSON_STRING
    /\ Len(Releases) = 7
    /\ heap.live = {}

(***************************************************************************)
(* C26.  A terminated string literal with content is rejected as too long  *)
(* exactly when its content length, an escape pair counted as one unit,    *)
(* exceeds MAX_STRING_LENGTH; with a content length up to the cap, the cap *)
(* included, it is accepted.                                               *)
(***************************************************************************)
\* the input is a terminated literal and nothing else: no quote between
\* the two quotes, and each backslash there starts an escape pair
IsLiteral ==
    /\ Len(input) > 2
    /\ input[1] = Ch.quote
    /\ input[Len(input)] = Ch.quote
    /\ \A i \in 2..Len(input) - 1 :
          /\ input[i] # Ch.quote
          /\ input[i] = Ch.bslash
               => i + 1 < Len(input) /\ input[i + 1] # Ch.bslash

\* its content length: a unit for each byte but the backslashes
ContentLength ==
    Len(input) - 2
    - Cardinality({i \in 2..Len(input) - 1 : input[i] = Ch.bslash})

C26_StringCap ==
    Returned /\ IsLiteral
        => (parsed.code = MS_JSON_SUCCESS
               <=> ContentLength <= MAX_STRING_LENGTH)

(***************************************************************************)
(* C27.  Container storage.  After any sequence of builder calls, failed   *)
(* ones included, every array and object has count <= capacity, a capacity *)
(* that is 0 or 4 * 2^k, and non-null elements (for objects non-null keys  *)
(* and values) in its first count slots; a call that grows a table makes   *)
(* the capacity 4 when it was 0 and twice what it was otherwise, and keeps *)
(* the slots there were.                                                   *)
(***************************************************************************)
RECURSIVE IsCapacity(_)
\* 0, or 4 * 2^k
IsCapacity(c) ==
    \/ c = 0 \/ c = 4
    \/ c > 4 /\ c % 2 = 0 /\ IsCapacity(c \div 2)

Containers(v) == {c \in Subtrees(v) : c.type \in {MS_JSON_ARRAY, MS_JSON_OBJECT}}

Storage(c) ==
    /\ Len(c.items) <= c.capacity
    /\ IsCapacity(c.capacity)
    /\ c.capacity > 0 <=> c.tab # NULL
    /\ \A i \in 1..Len(c.items) : IsValue(c.items[i]) /\ c.items[i].id # NULL
    /\ c.type = MS_JSON_OBJECT
         => /\ Len(c.keys) = Len(c.items)
            /\ \A i \in 1..Len(c.keys) : c.keys[i].kid # NULL
    /\ c.type = MS_JSON_ARRAY => c.keys = <<>>

\* the last call added a slot to its container
Added ==
    /\ last.op \in {"append", "set"}
    /\ last.res = MS_JSON_SUCCESS
    /\ Len(last.after.items) = Len(last.target.items) + 1

\* the last call grew the table of its container
Grown ==
    /\ last.op \in {"append", "set"}
    /\ last.after.capacity # last.target.capacity

\* the container of the last call has the slots it had
SlotsKept ==
    /\ SubSeq(last.after.items, 1, Len(last.target.items)) = last.target.items
    /\ SubSeq(last.after.keys, 1, Len(last.target.keys)) = last.target.keys

C27_ContainerStorage ==
    /\ \A r \in 1..Len(roots) : \A c \in Containers(roots[r]) : Storage(c)
    /\ Grown
         => /\ Len(last.target.items) = last.target.capacity
            /\ last.after.capacity
                  = IF last.target.capacity = 0 THEN 4
                    ELSE 2 * last.target.capacity
            /\ SlotsKept
    /\ Added
         => /\ SlotsKept
            /\ Len(last.target.items) = last.target.capacity => Grown

\* a ninth entry set in an object of eight: the table goes from 8 to 16
C27_Witness ==
    /\ Added
    /\ last.op = "set"
    /\ last.target.capacity = 8
    /\ Len(last.target.items) = 8
    /\ last.after.capacity = 16
    /\ Len(last.after.items) = 9

(***************************************************************************)
(* C28.  Serializer buffer.  Throughout ms_json_serialize the position is  *)
(* at most the capacity and no byte is written at an index that is not     *)
(* below the capacity; the capacity starts at 1024, never decreases and    *)
(* becomes max(2 * capacity, position + needed) when the buffer grows; on  *)
(* Success the NUL is at index position, position < capacity, and position *)
(* is the number of bytes of the text.                                     *)
(***************************************************************************)
Max(a, b) == IF a >= b THEN a ELSE b

\* the capacity before the k-th growth of the buffer
CapacityBefore(k) ==
    IF k = 1 THEN SERIALIZE_BUFFER_INITIAL_SIZE ELSE text1.grown[k - 1][4]

\* the call of ms_json_serialize got its first buffer
Buffered == phase = "emitted" /\ text1.capacity > 0

C28_SerializerBuffer ==
    Buffered
        => /\ text1.position <= text1.capacity
           /\ ~text1.beyond
           /\ text1.capacity >= SERIALIZE_BUFFER_INITIAL_SIZE
           /\ \A k \in 1..Len(text1.grown) :
                 /\ text1.grown[k][3] = CapacityBefore(k)
                 /\ text1.grown[k][1] <= text1.grown[k][3]
                 /\ text1.grown[k][1] + text1.grown[k][2] > text1.grown[k][3]
                 /\ text1.grown[k][4]
                       = Max(2 * text1.grown[k][3],
                             text1.grown[k][1] + text1.grown[k][2])
                 /\ text1.grown[k][4] > text1.grown[k][3]
           /\ text1.capacity = CapacityBefore(Len(text1.grown) + 1)
           /\ text1.res = MS_JSON_SUCCESS
                 => /\ text1.written
                    /\ text1.position < text1.capacity
                    /\ text1.position = Len(text1.text)

\* a text of 1024 bytes: the buffer was full after the last byte and grew
\* for the terminator alone
C28_Witness ==
    /\ phase = "emitted"
    /\ text1.res = MS_JSON_SUCCESS
    /\ text1.grown = <<<<1024, 1, 1024, 2048>>>>
    /\ text1.position = 1024
    /\ text1.capacity = 2048

(***************************************************************************)
(* C29.  Cursor.  During a parse the position is never set to a smaller    *)
(* one nor beyond the length, so 0 <= position <= length throughout; every *)
(* byte a routine of the parser reads at the position or right after it is *)
(* at an index below the length; and when the parse returns, with Success  *)
(* or not, the position is at most the length.                             *)
(***************************************************************************)
\* the cursor of the context a parse returned with
CursorKept(ctx) ==
    /\ 0 <= ctx.position
    /\ ctx.position <= ctx.length
    /\ ~ctx.retreated
    /\ ~ctx.overran
    /\ ~ctx.outside

C29_Cursor ==
    /\ phase # "write" => CursorKept(parsed.ctx)
    /\ phase \in {"reparsed", "done"} => CursorKept(parsed2.ctx)

\* the text {"a" : the parser comes to the colon test with the cursor at the
\* end of the input and returns a syntax error with the cursor there
C29_Witness ==
    /\ phase = "parsed"
    /\ input = <<Ch.lbrace, Ch.quote, Ch.a, Ch.quote>>
    /\ parsed.code = MS_JSON_ERROR_SYNTAX
    /\ parsed.ctx.position = parsed.ctx.length

(***************************************************************************)
(* C30.  Raw length.  parse_string compares the bytes left from the        *)
(* opening quote on, not the length of the literal, with twice             *)
(* MAX_STRING_LENGTH: a string literal or an object key whose opening      *)
(* quote the parser finds with more bytes than that left is rejected with  *)
(* MS_JSON_ERROR_SYNTAX, however short it is, and so is the document: no   *)
(* literal is read after it and the parse returns that error with no       *)
(* value.                                                                  *)
(***************************************************************************)
\* the bytes left from index i of the input of the parse on
Remaining(i) == parsed.ctx.length - i

\* the parse found an opening quote with more than the limit left
StartedFar ==
    /\ phase = "parsed"
    /\ \E k \in 1..Len(parsed.ctx.literals) :
          Remaining(parsed.ctx.literals[k]) > 2 * MAX_STRING_LENGTH

====
